---------------------------- MODULE Spec2Model ----------------------------
(***************************************************************************)
(* A model of the two-stage JSON parser: the lexer (json_lexer.rs) as      *)
(* operators over byte sequences, the lex_all loop as a state machine, and *)
(* the parser (json_lexer_parser.rs) as a pushdown state machine whose     *)
(* stack holds the frames of the recursive parse_json_array /              *)
(* parse_json_object calls.                                                *)
(*                                                                         *)
(* Bytes are the integers 0..255 and byte offsets count from 0 as in the   *)
(* code; At(bytes, i) reads bytes[i].                                      *)
(***************************************************************************)
EXTENDS Integers, Sequences, FiniteSets, TLC

VARIABLES
    input,      \* the bytes handed to process_json_string_v2 / lex_all
    pc,         \* where the call stands
    lexcur,     \* lex_all's `cursor`
    tokens,     \* the token queue (VecDeque<Token>)
    cursor,     \* the parser's `cursor`
    stack,      \* one frame per parse_json_array / parse_json_object call in progress
    json_value, \* process_json_string_v2's `json_value`, once the top-level value is parsed
    popped,     \* the tokens the parser has taken with next_token, in order
    result      \* the Result returned to the caller, once pc = "done"

vars == <<input, pc, lexcur, tokens, cursor, stack, json_value, popped, result>>

-----------------------------------------------------------------------------
(* Byte literals of json_lexer.rs *)

B_TAB == 9
B_LF == 10
B_CR == 13
B_SPACE == 32
B_QUOTE == 34
B_PLUS == 43
B_COMMA == 44
B_MINUS == 45
B_DOT == 46
B_SLASH == 47
B_0 == 48
B_9 == 57
B_COLON == 58
B_UA == 65
B_UE == 69
B_UF == 70
B_LBRACKET == 91
B_BACKSLASH == 92
B_RBRACKET == 93
B_a == 97
B_b == 98
B_e == 101
B_f == 102
B_n == 110
B_r == 114
B_t == 116
B_u == 117
B_LBRACE == 123
B_RBRACE == 125
B_BS == 8
B_FF == 12
CTRL_MAX == 31

TRUE_BYTES == <<116, 114, 117, 101>>
FALSE_BYTES == <<102, 97, 108, 115, 101>>
NULL_LITERAL == <<110, 117, 108, 108>>

At(bytes, i) == bytes[i + 1]

\* bytes[a..b]
Slice(bytes, a, b) == SubSeq(bytes, a + 1, b)

\* u8::is_ascii_digit
IsAsciiDigit(b) == b >= B_0 /\ b <= B_9

Ok(v, c) == [ok |-> TRUE, v |-> v, cursor |-> c]
Err(e, c) == [ok |-> FALSE, e |-> e, cursor |-> c]

-----------------------------------------------------------------------------
(* LexerError, StringError, NumberError (json_definitions.rs, json_lexer.rs) *)

CursorOutOfBounds(c, len) == [e |-> "CursorOutOfBounds", cursor |-> c, len |-> len]
UnexpectedEof(at, expected) == [e |-> "UnexpectedEof", at |-> at, expected |-> expected]
UnexpectedByte(at, found, expected) ==
    [e |-> "UnexpectedByte", at |-> at, found |-> found, expected |-> expected]
InvalidLiteral(at, expected) == [e |-> "InvalidLiteral", at |-> at, expected |-> expected]
InvalidString(at, reason) == [e |-> "InvalidString", at |-> at, reason |-> reason]
InvalidNumber(at, reason) == [e |-> "InvalidNumber", at |-> at, reason |-> reason]

Unterminated == [r |-> "Unterminated"]
InvalidEscape(found) == [r |-> "InvalidEscape", found |-> found]
TrailingBackslash == [r |-> "TrailingBackslash"]
ControlChar(found) == [r |-> "ControlChar", found |-> found]
InvalidUtf8 == [r |-> "InvalidUtf8"]
InvalidUnicodeEscape == [r |-> "InvalidUnicodeEscape"]
SurrogateNotAllowed == [r |-> "SurrogateNotAllowed"]

-----------------------------------------------------------------------------
(* Token, Span, TokenKind *)

Span(s, e) == [start |-> s, end |-> e]

Token(kind, span) == [kind |-> kind, span |-> span]
BoolToken(b, span) == [kind |-> "Bool", b |-> b, span |-> span]
StringToken(s, span) == [kind |-> "String", s |-> s, span |-> span]
NumberToken(n, span) == [kind |-> "Number", n |-> n, span |-> span]

-----------------------------------------------------------------------------
(* skip_ws, consume_one, consume_literal, consume_bool, consume_null *)

\* The whitespace test, were a carriage return no whitespace
IsWs_no_cr(b) == b = B_SPACE \/ b = B_LF \/ b = B_TAB

\* The whitespace test, were it that of u8::is_ascii_whitespace (form feed too)
IsWs_ascii_whitespace(b) == b = B_SPACE \/ b = B_LF \/ b = B_CR \/ b = B_TAB \/ b = 12

IsWs(b) == b = B_SPACE \/ b = B_LF \/ b = B_CR \/ b = B_TAB

RECURSIVE skip_ws(_, _)
skip_ws(bytes, cur) ==
    IF cur < Len(bytes) /\ IsWs(At(bytes, cur))
    THEN skip_ws(bytes, cur + 1)
    ELSE cur

\* consume_one, were the cursor moved past the byte after the token too
consume_one_two_bytes(kind, cur) == Ok(Token(kind, Span(cur, cur + 1)), cur + 2)

\* consume_one, were the cursor left where it was
consume_one_cursor_kept(kind, cur) == Ok(Token(kind, Span(cur, cur + 1)), cur)

\* consume_one, were the span taken after the cursor has moved
consume_one_span_after(kind, cur) == Ok(Token(kind, Span(cur + 1, cur + 1)), cur + 1)

consume_one(kind, cur) == Ok(Token(kind, Span(cur, cur + 1)), cur + 1)

\* consume_literal, were the end of input reported at the literal's start
consume_literal_eof_at_start(bytes, cur, lit, expected_name) ==
    LET start == cur
        end == start + Len(lit)
    IN  IF end > Len(bytes)
        THEN Err(UnexpectedEof(start, expected_name), cur)
        ELSE IF Slice(bytes, start, end) # lit
        THEN Err(InvalidLiteral(start, expected_name), cur)
        ELSE Ok(Span(start, end), end)

\* consume_literal, were a complete match to need a delimiter after it
consume_literal_delimited(bytes, cur, lit, expected_name) ==
    LET start == cur
        end == start + Len(lit)
    IN  IF end > Len(bytes)
        THEN Err(UnexpectedEof(Len(bytes), expected_name), cur)
        ELSE IF Slice(bytes, start, end) # lit
        THEN Err(InvalidLiteral(start, expected_name), cur)
        ELSE IF end < Len(bytes) /\ At(bytes, end) >= B_a /\ At(bytes, end) <= 122
        THEN Err(InvalidLiteral(start, expected_name), cur)
        ELSE Ok(Span(start, end), end)

consume_literal(bytes, cur, lit, expected_name) ==
    LET start == cur
        end == start + Len(lit)
    IN  IF end > Len(bytes)
        THEN Err(UnexpectedEof(Len(bytes), expected_name), cur)
        ELSE IF Slice(bytes, start, end) # lit
        THEN Err(InvalidLiteral(start, expected_name), cur)
        ELSE Ok(Span(start, end), end)

consume_bool(bytes, cur) ==
    LET b == At(bytes, cur)
    IN  IF b = B_t
        THEN LET r == consume_literal(bytes, cur, TRUE_BYTES, "true")
             IN  IF r.ok THEN Ok(BoolToken(TRUE, r.v), r.cursor) ELSE r
        ELSE IF b = B_f
        THEN LET r == consume_literal(bytes, cur, FALSE_BYTES, "false")
             IN  IF r.ok THEN Ok(BoolToken(FALSE, r.v), r.cursor) ELSE r
        ELSE Err(UnexpectedByte(cur, b, "bool literal"), cur)

consume_null(bytes, cur) ==
    LET r == consume_literal(bytes, cur, NULL_LITERAL, "null")
    IN  IF r.ok THEN Ok(Token("Null", r.v), r.cursor) ELSE r

-----------------------------------------------------------------------------
(* Strings: consume_unicode, consume_escape_char, consume_string *)

\* The nibble of a hex digit, were the upper-case arm to lack its + 0xA
HexVal_upper_unshifted(b) ==
    IF b >= B_0 /\ b <= B_9 THEN b - B_0
    ELSE IF b >= B_a /\ b <= B_f THEN (b - B_a) + 10
    ELSE IF b >= B_UA /\ b <= B_UF THEN b - B_UA
    ELSE -1

\* The match on a hex digit in consume_unicode; -1 stands for the error arm.
HexVal(b) ==
    IF b >= B_0 /\ b <= B_9 THEN b - B_0
    ELSE IF b >= B_a /\ b <= B_f THEN (b - B_a) + 10
    ELSE IF b >= B_UA /\ b <= B_UF THEN (b - B_UA) + 10
    ELSE -1

\* (n0 << 12) | (n1 << 8) | (n2 << 4) | n3, each nibble below 16
CodeOf(n0, n1, n2, n3) == n0 * 4096 + n1 * 256 + n2 * 16 + n3

\* char::encode_utf8, as the bytes buf[..len]
encode_utf8(c) ==
    IF c < 128 THEN <<c>>
    ELSE IF c < 2048 THEN <<192 + (c \div 64), 128 + (c % 64)>>
    ELSE IF c < 65536
    THEN <<224 + (c \div 4096), 128 + ((c \div 64) % 64), 128 + (c % 64)>>
    ELSE <<240 + (c \div 262144), 128 + ((c \div 4096) % 64),
           128 + ((c \div 64) % 64), 128 + (c % 64)>>

\* char::from_u32(code).is_some()
IsScalarValue(code) == code >= 0 /\ code <= 1114111 /\ ~(code >= 55296 /\ code <= 57343)

\* The index of the first of the four bytes at cur that is no hex digit; 4: none.
FirstNonHex(bytes, cur) ==
    IF HexVal(At(bytes, cur)) < 0 THEN 0
    ELSE IF HexVal(At(bytes, cur + 1)) < 0 THEN 1
    ELSE IF HexVal(At(bytes, cur + 2)) < 0 THEN 2
    ELSE IF HexVal(At(bytes, cur + 3)) < 0 THEN 3
    ELSE 4

\* The surrogate test, were it to cover the high surrogates only
IsSurrogate_high_only(code) == code >= 55296 /\ code <= 56319

\* code >= 0xD800 && code <= 0xDFFF
IsSurrogate(code) == code >= 55296 /\ code <= 57343

\* consume_unicode, were a cut-off escape reported where the digits begin
consume_unicode_short_at_digits(bytes, cur0) ==
    LET cur == cur0 + 1
    IN  IF cur + 4 > Len(bytes)
        THEN Err(InvalidString(cur, InvalidUnicodeEscape), cur)
        ELSE LET bad == FirstNonHex(bytes, cur)
             IN  IF bad < 4
                 THEN Err(InvalidString(cur + bad, InvalidUnicodeEscape), cur + bad)
                 ELSE LET code == CodeOf(HexVal(At(bytes, cur)), HexVal(At(bytes, cur + 1)),
                                         HexVal(At(bytes, cur + 2)), HexVal(At(bytes, cur + 3)))
                          end == cur + 4
                      IN  IF IsSurrogate(code)
                          THEN Err(InvalidString(end, SurrogateNotAllowed), end)
                          ELSE IF ~IsScalarValue(code)
                          THEN Err(InvalidString(end, InvalidUnicodeEscape), end)
                          ELSE Ok(encode_utf8(code), end)

\* Entered with cur at 'u'. Ok carries the bytes buf[..len].
consume_unicode(bytes, cur0) ==
    LET cur == cur0 + 1
    IN  IF cur + 4 > Len(bytes)
        THEN Err(InvalidString(Len(bytes), InvalidUnicodeEscape), cur)
        ELSE LET bad == FirstNonHex(bytes, cur)
             IN  IF bad < 4
                 THEN Err(InvalidString(cur + bad, InvalidUnicodeEscape), cur + bad)
                 ELSE LET code == CodeOf(HexVal(At(bytes, cur)), HexVal(At(bytes, cur + 1)),
                                         HexVal(At(bytes, cur + 2)), HexVal(At(bytes, cur + 3)))
                          end == cur + 4
                      IN  IF IsSurrogate(code)
                          THEN Err(InvalidString(end, SurrogateNotAllowed), end)
                          ELSE IF ~IsScalarValue(code)
                          THEN Err(InvalidString(end, InvalidUnicodeEscape), end)
                          ELSE Ok(encode_utf8(code), end)

\* The one-character escapes, were \a one of them as in C
EscapeByte_with_bell(b) ==
    IF b = B_QUOTE THEN B_QUOTE
    ELSE IF b = B_BACKSLASH THEN B_BACKSLASH
    ELSE IF b = B_SLASH THEN B_SLASH
    ELSE IF b = B_a THEN 7
    ELSE IF b = B_b THEN B_BS
    ELSE IF b = B_f THEN B_FF
    ELSE IF b = B_n THEN B_LF
    ELSE IF b = B_r THEN B_CR
    ELSE IF b = B_t THEN B_TAB
    ELSE -1

\* The output byte of a one-character escape; -1: no such escape.
EscapeByte(b) ==
    IF b = B_QUOTE THEN B_QUOTE
    ELSE IF b = B_BACKSLASH THEN B_BACKSLASH
    ELSE IF b = B_SLASH THEN B_SLASH
    ELSE IF b = B_b THEN B_BS
    ELSE IF b = B_f THEN B_FF
    ELSE IF b = B_n THEN B_LF
    ELSE IF b = B_r THEN B_CR
    ELSE IF b = B_t THEN B_TAB
    ELSE -1

\* consume_escape_char, were the arm of '"' to leave the cursor on the quote
consume_escape_char_quote_left(bytes, cur0) ==
    LET cur == cur0 + 1
    IN  IF cur >= Len(bytes)
        THEN Err(InvalidString(cur, TrailingBackslash), cur)
        ELSE LET b == At(bytes, cur)
             IN  IF b = B_QUOTE THEN Ok(<<B_QUOTE>>, cur)
                 ELSE IF EscapeByte(b) >= 0 THEN Ok(<<EscapeByte(b)>>, cur + 1)
                 ELSE IF b = B_u THEN consume_unicode(bytes, cur)
                 ELSE Err(InvalidString(cur, InvalidEscape(b)), cur)

\* consume_escape_char, were a backslash at the end left to the loop's
\* Unterminated
consume_escape_char_no_trailing(bytes, cur0) ==
    LET cur == cur0 + 1
    IN  IF cur >= Len(bytes)
        THEN Err(InvalidString(cur, Unterminated), cur)
        ELSE LET b == At(bytes, cur)
             IN  IF EscapeByte(b) >= 0 THEN Ok(<<EscapeByte(b)>>, cur + 1)
                 ELSE IF b = B_u THEN consume_unicode(bytes, cur)
                 ELSE Err(InvalidString(cur, InvalidEscape(b)), cur)

\* Entered with cur0 at '\'. Ok carries the bytes out[..n].
consume_escape_char(bytes, cur0) ==
    LET cur == cur0 + 1
    IN  IF cur >= Len(bytes)
        THEN Err(InvalidString(cur, TrailingBackslash), cur)
        ELSE LET b == At(bytes, cur)
             IN  IF EscapeByte(b) >= 0 THEN Ok(<<EscapeByte(b)>>, cur + 1)
                 ELSE IF b = B_u THEN consume_unicode(bytes, cur)
                 ELSE Err(InvalidString(cur, InvalidEscape(b)), cur)

\* The length of the UTF-8 sequence that starts s at index i (1-based), 0 if
\* none does (std::str::from_utf8's validation, RFC 3629).
Utf8SeqLen(s, i) ==
    LET b0 == s[i]
        n == Len(s)
        Cont(j) == j <= n /\ s[j] >= 128 /\ s[j] <= 191
        In(j, lo, hi) == j <= n /\ s[j] >= lo /\ s[j] <= hi
    IN  IF b0 < 128 THEN 1
        ELSE IF b0 >= 194 /\ b0 <= 223 THEN (IF Cont(i + 1) THEN 2 ELSE 0)
        ELSE IF b0 = 224 THEN (IF In(i + 1, 160, 191) /\ Cont(i + 2) THEN 3 ELSE 0)
        ELSE IF (b0 >= 225 /\ b0 <= 236) \/ b0 = 238 \/ b0 = 239
             THEN (IF Cont(i + 1) /\ Cont(i + 2) THEN 3 ELSE 0)
        ELSE IF b0 = 237 THEN (IF In(i + 1, 128, 159) /\ Cont(i + 2) THEN 3 ELSE 0)
        ELSE IF b0 = 240
             THEN (IF In(i + 1, 144, 191) /\ Cont(i + 2) /\ Cont(i + 3) THEN 4 ELSE 0)
        ELSE IF b0 >= 241 /\ b0 <= 243
             THEN (IF Cont(i + 1) /\ Cont(i + 2) /\ Cont(i + 3) THEN 4 ELSE 0)
        ELSE IF b0 = 244
             THEN (IF In(i + 1, 128, 143) /\ Cont(i + 2) /\ Cont(i + 3) THEN 4 ELSE 0)
        ELSE 0

RECURSIVE Utf8ValidFrom(_, _)
Utf8ValidFrom(s, i) ==
    IF i > Len(s) THEN TRUE
    ELSE LET k == Utf8SeqLen(s, i)
         IN  k > 0 /\ Utf8ValidFrom(s, i + k)

\* std::str::from_utf8(&out).is_ok()
from_utf8_ok(s) == Utf8ValidFrom(s, 1)

\* run_start, were it left where it was after an escape
RunStartAfterEscape_stale(run_start, cur) == run_start

\* run_start = *cursor, after an escape has been consumed
RunStartAfterEscape(run_start, cur) == cur

\* The while loop, were its control byte arm to end one short, at 0x1E
RECURSIVE StringLoop_ctrl_short(_, _, _, _, _)
StringLoop_ctrl_short(bytes, string_start, cur, run_start, out) ==
    IF cur >= Len(bytes)
    THEN Err(InvalidString(Len(bytes), Unterminated), cur)
    ELSE LET b == At(bytes, cur)
         IN  IF b = B_BACKSLASH
             THEN LET out1 == out \o Slice(bytes, run_start, cur)
                      r == consume_escape_char(bytes, cur)
                  IN  IF ~r.ok THEN r
                      ELSE StringLoop_ctrl_short(bytes, string_start, r.cursor,
                                      RunStartAfterEscape(run_start, r.cursor), out1 \o r.v)
             ELSE IF b = B_QUOTE
             THEN LET out1 == out \o Slice(bytes, run_start, cur)
                      end == cur + 1
                  IN  IF from_utf8_ok(out1)
                      THEN Ok(StringToken(out1, Span(string_start, end)), end)
                      ELSE Err(InvalidString(end, InvalidUtf8), end)
             ELSE IF b < CTRL_MAX
             THEN Err(InvalidString(cur, ControlChar(b)), cur)
             ELSE StringLoop_ctrl_short(bytes, string_start, cur + 1, run_start, out)

\* The while loop of consume_string: cur, run_start and out are its variables.
RECURSIVE StringLoop(_, _, _, _, _)
StringLoop(bytes, string_start, cur, run_start, out) ==
    IF cur >= Len(bytes)
    THEN Err(InvalidString(Len(bytes), Unterminated), cur)
    ELSE LET b == At(bytes, cur)
         IN  IF b = B_BACKSLASH
             THEN LET out1 == out \o Slice(bytes, run_start, cur)
                      r == consume_escape_char(bytes, cur)
                  IN  IF ~r.ok THEN r
                      ELSE StringLoop(bytes, string_start, r.cursor,
                                      RunStartAfterEscape(run_start, r.cursor), out1 \o r.v)
             ELSE IF b = B_QUOTE
             THEN LET out1 == out \o Slice(bytes, run_start, cur)
                      end == cur + 1
                  IN  IF from_utf8_ok(out1)
                      THEN Ok(StringToken(out1, Span(string_start, end)), end)
                      ELSE Err(InvalidString(end, InvalidUtf8), end)
             ELSE IF b <= CTRL_MAX
             THEN Err(InvalidString(cur, ControlChar(b)), cur)
             ELSE StringLoop(bytes, string_start, cur + 1, run_start, out)

\* Entered with cur at the opening quote.
consume_string(bytes, cur) == StringLoop(bytes, cur, cur + 1, cur + 1, <<>>)

-----------------------------------------------------------------------------
(* Numbers: consume_number, and str::parse::<f64> on the matched lexeme *)

NumEmpty == "Empty"
NumLeadingZero == "LeadingZero"
MissingFracDigit == "MissingFracDigit"
MissingExpDigit == "MissingExpDigit"
InvalidChar == "InvalidChar"
ParseFloatFailed == "ParseFloatFailed"
NonFinite == "NonFinite"

\* The while loop, were a sign outside the exponent to end the number
RECURSIVE NumberLoop_sign_ends(_, _, _)
NumberLoop_sign_ends(bytes, cur, fl) ==
    IF cur >= Len(bytes) THEN [bad |-> FALSE, cursor |-> cur, fl |-> fl]
    ELSE LET b == At(bytes, cur)
         IN  IF IsAsciiDigit(b)
             THEN NumberLoop_sign_ends(bytes, cur + 1,
                      [fl EXCEPT !.need_frac_digit = FALSE, !.need_exp_digit = FALSE,
                                 !.exp_sign_allowed = FALSE])
             ELSE IF b = B_DOT
             THEN IF fl.seen_dot \/ fl.seen_exp
                  THEN [bad |-> TRUE, cursor |-> cur, fl |-> fl]
                  ELSE NumberLoop_sign_ends(bytes, cur + 1,
                           [fl EXCEPT !.seen_dot = TRUE, !.need_frac_digit = TRUE,
                                      !.exp_sign_allowed = FALSE])
             ELSE IF b = B_e \/ b = B_UE
             THEN IF fl.seen_exp \/ fl.need_frac_digit
                  THEN [bad |-> TRUE, cursor |-> cur, fl |-> fl]
                  ELSE NumberLoop_sign_ends(bytes, cur + 1,
                           [fl EXCEPT !.seen_exp = TRUE, !.need_exp_digit = TRUE,
                                      !.exp_sign_allowed = TRUE])
             ELSE IF b = B_PLUS \/ b = B_MINUS
             THEN IF ~fl.exp_sign_allowed
                  THEN [bad |-> FALSE, cursor |-> cur, fl |-> fl]
                  ELSE NumberLoop_sign_ends(bytes, cur + 1, [fl EXCEPT !.exp_sign_allowed = FALSE])
             ELSE [bad |-> FALSE, cursor |-> cur, fl |-> fl]

\* The while loop, were a '.' allowed after the exponent marker
RECURSIVE NumberLoop_dot_in_exponent(_, _, _)
NumberLoop_dot_in_exponent(bytes, cur, fl) ==
    IF cur >= Len(bytes) THEN [bad |-> FALSE, cursor |-> cur, fl |-> fl]
    ELSE LET b == At(bytes, cur)
         IN  IF IsAsciiDigit(b)
             THEN NumberLoop_dot_in_exponent(bytes, cur + 1,
                      [fl EXCEPT !.need_frac_digit = FALSE, !.need_exp_digit = FALSE,
                                 !.exp_sign_allowed = FALSE])
             ELSE IF b = B_DOT
             THEN IF fl.seen_dot
                  THEN [bad |-> TRUE, cursor |-> cur, fl |-> fl]
                  ELSE NumberLoop_dot_in_exponent(bytes, cur + 1,
                           [fl EXCEPT !.seen_dot = TRUE, !.need_frac_digit = TRUE,
                                      !.exp_sign_allowed = FALSE])
             ELSE IF b = B_e \/ b = B_UE
             THEN IF fl.seen_exp \/ fl.need_frac_digit
                  THEN [bad |-> TRUE, cursor |-> cur, fl |-> fl]
                  ELSE NumberLoop_dot_in_exponent(bytes, cur + 1,
                           [fl EXCEPT !.seen_exp = TRUE, !.need_exp_digit = TRUE,
                                      !.exp_sign_allowed = TRUE])
             ELSE IF b = B_PLUS \/ b = B_MINUS
             THEN IF ~fl.exp_sign_allowed
                  THEN [bad |-> TRUE, cursor |-> cur, fl |-> fl]
                  ELSE NumberLoop_dot_in_exponent(bytes, cur + 1, [fl EXCEPT !.exp_sign_allowed = FALSE])
             ELSE [bad |-> FALSE, cursor |-> cur, fl |-> fl]

\* The while loop of consume_number; fl holds seen_dot, seen_exp, need_frac_digit,
\* need_exp_digit and exp_sign_allowed. It ends with bad = TRUE at an InvalidChar.
RECURSIVE NumberLoop(_, _, _)
NumberLoop(bytes, cur, fl) ==
    IF cur >= Len(bytes) THEN [bad |-> FALSE, cursor |-> cur, fl |-> fl]
    ELSE LET b == At(bytes, cur)
         IN  IF IsAsciiDigit(b)
             THEN NumberLoop(bytes, cur + 1,
                      [fl EXCEPT !.need_frac_digit = FALSE, !.need_exp_digit = FALSE,
                                 !.exp_sign_allowed = FALSE])
             ELSE IF b = B_DOT
             THEN IF fl.seen_dot \/ fl.seen_exp
                  THEN [bad |-> TRUE, cursor |-> cur, fl |-> fl]
                  ELSE NumberLoop(bytes, cur + 1,
                           [fl EXCEPT !.seen_dot = TRUE, !.need_frac_digit = TRUE,
                                      !.exp_sign_allowed = FALSE])
             ELSE IF b = B_e \/ b = B_UE
             THEN IF fl.seen_exp \/ fl.need_frac_digit
                  THEN [bad |-> TRUE, cursor |-> cur, fl |-> fl]
                  ELSE NumberLoop(bytes, cur + 1,
                           [fl EXCEPT !.seen_exp = TRUE, !.need_exp_digit = TRUE,
                                      !.exp_sign_allowed = TRUE])
             ELSE IF b = B_PLUS \/ b = B_MINUS
             THEN IF ~fl.exp_sign_allowed
                  THEN [bad |-> TRUE, cursor |-> cur, fl |-> fl]
                  ELSE NumberLoop(bytes, cur + 1, [fl EXCEPT !.exp_sign_allowed = FALSE])
             ELSE [bad |-> FALSE, cursor |-> cur, fl |-> fl]

NumberFlags0 ==
    [seen_dot |-> FALSE, seen_exp |-> FALSE, need_frac_digit |-> FALSE,
     need_exp_digit |-> FALSE, exp_sign_allowed |-> FALSE]

\* The decimal value of a run of ASCII digits.
RECURSIVE DigitsValue(_)
DigitsValue(ds) ==
    IF ds = <<>> THEN 0
    ELSE DigitsValue(SubSeq(ds, 1, Len(ds) - 1)) * 10 + (ds[Len(ds)] - B_0)

\* The number of leading bytes of s that are ASCII digits.
RECURSIVE DigitRun(_)
DigitRun(s) ==
    IF s # <<>> /\ IsAsciiDigit(s[1]) THEN 1 + DigitRun(Tail(s)) ELSE 0

RECURSIVE NumDigits(_)
NumDigits(m) == IF m < 10 THEN 1 ELSE 1 + NumDigits(m \div 10)

RECURSIVE Pow10(_)
Pow10(k) == IF k = 0 THEN 1 ELSE 10 * Pow10(k - 1)

\* m * 10^e with the trailing zeros of m moved into e; zero is 0 * 10^0.
RECURSIVE Normalize(_, _)
Normalize(m, e) ==
    IF m = 0 THEN [mant |-> 0, exp |-> 0]
    ELSE IF m % 10 = 0 THEN Normalize(m \div 10, e + 1)
    ELSE [mant |-> m, exp |-> e]

\* The first nine significant digits of m (m below 10^9), as an integer.
Lead9(m) == m * Pow10(9 - NumDigits(m))

\* str::parse::<f64> on a lexeme that consume_number's scan accepted, which is always
\* of the form -?digits(.digits)?([eE][+-]?digits)? and so never fails to parse.
\* The f64 is held as its sign and the decimal mant * 10^exp it was rounded from
\* (distinct decimals of at most 15 significant digits in the normal range are
\* distinct f64s); kind tells a finite value from an overflow to infinity, and a
\* decimal below half the least subnormal is the zero it rounds to.
F64Zero(neg) == [kind |-> "finite", neg |-> neg, mant |-> 0, exp |-> 0]

\* The f64 nearest to mant * 10^exp (nm, normalized), sci its decimal exponent.
F64Round(neg, nm, sci) ==
    IF nm.mant = 0 THEN F64Zero(neg)
    ELSE IF sci > 308 \/ (sci = 308 /\ Lead9(nm.mant) >= 179769314)
    THEN [kind |-> "inf", neg |-> neg, mant |-> 0, exp |-> 0]
    ELSE IF sci < -324 \/ (sci = -324 /\ Lead9(nm.mant) <= 247032822)
    THEN F64Zero(neg)
    ELSE [kind |-> "finite", neg |-> neg, mant |-> nm.mant, exp |-> nm.exp]

F64OfNormal(neg, nm) == F64Round(neg, nm, nm.exp + NumDigits(nm.mant) - 1)

\* digits * 10^(exponent - number of fraction digits)
F64OfParts(neg, ints, fracs, expNeg, expDigits) ==
    F64OfNormal(neg,
        Normalize(DigitsValue(ints \o fracs),
                  (IF expNeg THEN 0 - DigitsValue(expDigits) ELSE DigitsValue(expDigits))
                      - Len(fracs)))

\* rest is empty or the exponent part: e or E, an optional sign, digits
F64Exponent(neg, ints, fracs, rest) ==
    IF rest = <<>> THEN F64OfParts(neg, ints, fracs, FALSE, <<>>)
    ELSE IF Len(rest) > 1 /\ (rest[2] = B_MINUS \/ rest[2] = B_PLUS)
    THEN F64OfParts(neg, ints, fracs, rest[2] = B_MINUS, SubSeq(rest, 3, Len(rest)))
    ELSE F64OfParts(neg, ints, fracs, FALSE, Tail(rest))

\* rest is what follows the integer digits
F64Fraction(neg, ints, rest) ==
    IF rest # <<>> /\ rest[1] = B_DOT
    THEN F64Exponent(neg, ints, SubSeq(rest, 2, DigitRun(Tail(rest)) + 1),
                     SubSeq(rest, DigitRun(Tail(rest)) + 2, Len(rest)))
    ELSE F64Exponent(neg, ints, <<>>, rest)

F64Unsigned(neg, body) ==
    F64Fraction(neg, SubSeq(body, 1, DigitRun(body)),
                SubSeq(body, DigitRun(body) + 1, Len(body)))

ParseF64(lexeme) ==
    IF lexeme[1] = B_MINUS THEN F64Unsigned(TRUE, Tail(lexeme))
    ELSE F64Unsigned(FALSE, lexeme)

\* f64::is_finite
is_finite(num) == num.kind = "finite"

\* The leading-zero test, were it not to look at what the next byte is
LeadingZeroAt_any_next(bytes, cur) ==
    At(bytes, cur) = B_0 /\ cur + 1 < Len(bytes)

\* The leading-zero test of consume_number, cur at the first digit
LeadingZeroAt(bytes, cur) ==
    At(bytes, cur) = B_0 /\ cur + 1 < Len(bytes) /\ IsAsciiDigit(At(bytes, cur + 1))

\* The end of consume_number, were non-finite values allowed
NumberOf_unchecked(num, start, end) == Ok(NumberToken(num, Span(start, end)), end)

\* The end of consume_number: num is the parsed lexeme bytes[start..end].
NumberOf(num, start, end) ==
    IF ~is_finite(num) THEN Err(InvalidNumber(start, NonFinite), end)
    ELSE Ok(NumberToken(num, Span(start, end)), end)

\* consume_number, were a missing digit reported at the number's start
consume_number_at_start(bytes, cur0) ==
    LET start == cur0
        cur1 == IF At(bytes, cur0) = B_MINUS THEN cur0 + 1 ELSE cur0
    IN  IF cur1 >= Len(bytes) \/ ~IsAsciiDigit(At(bytes, cur1))
        THEN Err(InvalidNumber(cur1, NumEmpty), cur1)
        ELSE IF LeadingZeroAt(bytes, cur1)
        THEN Err(InvalidNumber(cur1, NumLeadingZero), cur1)
        ELSE LET sc == NumberLoop(bytes, cur1, NumberFlags0)
                 end == sc.cursor
             IN  IF sc.bad THEN Err(InvalidNumber(end, InvalidChar), end)
                 ELSE IF sc.fl.need_frac_digit
                 THEN Err(InvalidNumber(start, MissingFracDigit), end)
                 ELSE IF sc.fl.need_exp_digit
                 THEN Err(InvalidNumber(start, MissingExpDigit), end)
                 ELSE NumberOf(ParseF64(Slice(bytes, start, end)), start, end)

\* Entered with cur0 at '-' or a digit.
consume_number(bytes, cur0) ==
    LET start == cur0
        cur1 == IF At(bytes, cur0) = B_MINUS THEN cur0 + 1 ELSE cur0
    IN  IF cur1 >= Len(bytes) \/ ~IsAsciiDigit(At(bytes, cur1))
        THEN Err(InvalidNumber(cur1, NumEmpty), cur1)
        ELSE IF LeadingZeroAt(bytes, cur1)
        THEN Err(InvalidNumber(cur1, NumLeadingZero), cur1)
        ELSE LET sc == NumberLoop(bytes, cur1, NumberFlags0)
                 end == sc.cursor
             IN  IF sc.bad THEN Err(InvalidNumber(end, InvalidChar), end)
                 ELSE IF sc.fl.need_frac_digit
                 THEN Err(InvalidNumber(end, MissingFracDigit), end)
                 ELSE IF sc.fl.need_exp_digit
                 THEN Err(InvalidNumber(end, MissingExpDigit), end)
                 ELSE NumberOf(ParseF64(Slice(bytes, start, end)), start, end)

-----------------------------------------------------------------------------
(* next_token and lex_all *)

\* next_token; entered with lex_all's cursor, Ok carries the token.
lexer_next_token(bytes, cur0) ==
    LET cur == skip_ws(bytes, cur0)
    IN  IF cur = Len(bytes) THEN Ok(Token("Eof", Span(cur, cur)), cur)
        ELSE IF cur > Len(bytes) THEN Err(CursorOutOfBounds(cur, Len(bytes)), cur)
        ELSE LET b == At(bytes, cur)
             IN  IF b = B_MINUS \/ IsAsciiDigit(b) THEN consume_number(bytes, cur)
                 ELSE IF b = B_QUOTE THEN consume_string(bytes, cur)
                 ELSE IF b = B_n THEN consume_null(bytes, cur)
                 ELSE IF b = B_t \/ b = B_f THEN consume_bool(bytes, cur)
                 ELSE IF b = B_LBRACKET THEN consume_one("LBracket", cur)
                 ELSE IF b = B_RBRACKET THEN consume_one("RBracket", cur)
                 ELSE IF b = B_LBRACE THEN consume_one("LBrace", cur)
                 ELSE IF b = B_RBRACE THEN consume_one("RBrace", cur)
                 ELSE IF b = B_COLON THEN consume_one("Colon", cur)
                 ELSE IF b = B_COMMA THEN consume_one("Comma", cur)
                 ELSE Err(UnexpectedByte(cur, b, "token"), cur)

\* lex_all's loop from cursor cur with the tokens toks pushed so far:
\* Ok carries the whole queue, Err the first error.
RECURSIVE LexFrom(_, _, _)
\* The body of the loop, were the sentinel not pushed before the loop is left
LexPush_without_sentinel(bytes, toks, r) ==
    IF ~r.ok THEN r
    ELSE IF r.v.kind = "Eof" THEN Ok(toks, r.cursor)
    ELSE LexFrom(bytes, r.cursor, Append(toks, r.v))

\* The body of the loop once next_token has returned r.
LexPush(bytes, toks, r) ==
    IF ~r.ok THEN r
    ELSE IF r.v.kind = "Eof" THEN Ok(Append(toks, r.v), r.cursor)
    ELSE LexFrom(bytes, r.cursor, Append(toks, r.v))

LexFrom(bytes, cur, toks) == LexPush(bytes, toks, lexer_next_token(bytes, cur))

lex_all(bytes) == LexFrom(bytes, 0, <<>>)

-----------------------------------------------------------------------------
(* JsonValue, TokenTag, JsonParsingErrorV2 (json_definitions.rs) *)

None == <<>>
Some(x) == <<x>>

JNull == [t |-> "Null"]
JBoolean(b) == [t |-> "Boolean", b |-> b]
JsonString(s) == [t |-> "JsonString", s |-> s]
JNumber(n) == [t |-> "Number", n |-> n]
JArray(elems) == [t |-> "Array", elems |-> elems]
\* An IndexMap is the sequence of its entries [k, v] in iteration order.
JObject(entries) == [t |-> "Object", entries |-> entries]

token_tag_of(k) ==
    CASE k = "LBrace" -> "LBrace"
      [] k = "RBrace" -> "RBrace"
      [] k = "LBracket" -> "LBracket"
      [] k = "RBracket" -> "RBracket"
      [] k = "Colon" -> "Colon"
      [] k = "Comma" -> "Comma"
      [] k = "Bool" -> "Bool"
      [] k = "Null" -> "Null"
      [] k = "String" -> "String"
      [] k = "Number" -> "Number"
      [] k = "Eof" -> "Eof"

EmptyJsonFile == [e |-> "EmptyJsonFile"]
UnexpectedEOF(at) == [e |-> "UnexpectedEOF", at |-> at]
ExpectedEOF(found, at) == [e |-> "ExpectedEOF", found |-> found, at |-> at]
UnexpectedToken(found, at) == [e |-> "UnexpectedToken", found |-> found, at |-> at]
InvalidArray(found, at) == [e |-> "InvalidArray", found |-> found, at |-> at]
InvalidJsonObject(found, at) == [e |-> "InvalidJsonObject", found |-> found, at |-> at]
LexError(le) == [e |-> "LexError", lex |-> le]

NoResult == [tag |-> "none"]
RetOk(v) == [tag |-> "Ok", v |-> v]
RetErr(e) == [tag |-> "Err", e |-> e]

NoValue == [t |-> "none"]

\* IndexMap::insert: a key already present keeps its place and takes the new value,
\* a new key is appended.
\* Byte strings in their lexicographic order
RECURSIVE KeyLess(_, _)
KeyLess(a, b) ==
    IF b = <<>> THEN FALSE
    ELSE IF a = <<>> THEN TRUE
    ELSE IF Head(a) # Head(b) THEN Head(a) < Head(b)
    ELSE KeyLess(Tail(a), Tail(b))

\* insert, were the map one that iterates in the order of its keys
IndexMapInsert_sorted(entries, k, v) ==
    LET below == SelectSeq(entries, LAMBDA x : KeyLess(x.k, k))
        above == SelectSeq(entries, LAMBDA x : KeyLess(k, x.k))
    IN  below \o <<[k |-> k, v |-> v]>> \o above

\* insert, were a repeated key to move to the end
IndexMapInsert_reinserted(entries, k, v) ==
    Append(SelectSeq(entries, LAMBDA x : x.k # k), [k |-> k, v |-> v])

\* IndexMap::insert: a new key goes to the end, a key already present keeps its
\* place and takes the new value.
IndexMapInsert(entries, k, v) ==
    IF \E i \in 1..Len(entries) : entries[i].k = k
    THEN [i \in 1..Len(entries) |->
             IF entries[i].k = k THEN [k |-> k, v |-> v] ELSE entries[i]]
    ELSE Append(entries, [k |-> k, v |-> v])

-----------------------------------------------------------------------------
(* The parser (json_lexer_parser.rs).  A parser state is the record            *)
(* [pc, tokens, cursor, stack, json_value, popped, result]; each handler below *)
(* maps the state it is entered in to the state it leaves.  A stack frame is   *)
(* one call of parse_json_array ([fn, out]) or parse_json_object               *)
(* ([fn, out, key]) with its locals.                                           *)

ArrayFrame == [fn |-> "array", out |-> <<>>]
ObjectFrame == [fn |-> "object", out |-> <<>>, key |-> None]

\* peek_token: tokens.front()
peek_token(toks) == IF toks = <<>> THEN None ELSE Some(Head(toks))

\* next_token: pop the front token and move the cursor to its end
next_token(st) ==
    IF st.tokens = <<>> THEN [some |-> FALSE, st |-> st]
    ELSE [some |-> TRUE, tok |-> Head(st.tokens),
          st |-> [st EXCEPT !.tokens = Tail(st.tokens),
                            !.cursor = Head(st.tokens).span.end,
                            !.popped = Append(st.popped, Head(st.tokens))]]

\* An error, were a call that encloses the failing one to report it anew
\* without its offset
Fail_offset_lost(st, e) ==
    [st EXCEPT !.pc = "done", !.stack = <<>>,
               !.result = RetErr(IF Len(st.stack) >= 2 /\ "at" \in DOMAIN e
                                 THEN [e EXCEPT !.at = None] ELSE e)]

\* An error leaves every enclosing call at once (the `?` operator).
Fail(st, e) == [st EXCEPT !.pc = "done", !.stack = <<>>, !.result = RetErr(e)]

\* Where control goes when parse_json_value returns Ok(v): to the call that
\* asked for the value, which stores it.
Deliver(st, v) ==
    IF st.stack = <<>>
    THEN [st EXCEPT !.pc = "eof_check", !.json_value = v]
    ELSE LET n == Len(st.stack)
             top == st.stack[n]
         IN  IF top.fn = "array"
             THEN [st EXCEPT !.pc = "arr_loop",
                             !.stack[n].out = Append(top.out, v)]
             ELSE [st EXCEPT !.pc = "obj_loop",
                             !.stack[n].out = IndexMapInsert(top.out, top.key[1], v),
                             !.stack[n].key = None]

\* A container call returns Ok(v): its frame is gone and v is delivered.
Return(st, v) ==
    Deliver([st EXCEPT !.stack = SubSeq(st.stack, 1, Len(st.stack) - 1)], v)

\* parse_json_value, were the end of input reported where the cursor stood
\* before the sentinel was popped
parse_json_value_eof_before_pop(st) ==
    LET nt == next_token(st)
    IN  IF ~nt.some THEN Fail(st, UnexpectedEOF(Some(st.cursor)))
        ELSE LET t == nt.tok
                 s1 == nt.st
             IN  CASE t.kind = "Null" -> Deliver(s1, JNull)
                   [] t.kind = "Bool" -> Deliver(s1, JBoolean(t.b))
                   [] t.kind = "String" -> Deliver(s1, JsonString(t.s))
                   [] t.kind = "Number" -> Deliver(s1, JNumber(t.n))
                   [] t.kind = "LBrace" ->
                        [s1 EXCEPT !.pc = "obj_first", !.stack = Append(s1.stack, ObjectFrame)]
                   [] t.kind = "LBracket" ->
                        [s1 EXCEPT !.pc = "arr_first", !.stack = Append(s1.stack, ArrayFrame)]
                   [] t.kind = "Eof" -> Fail(s1, UnexpectedEOF(Some(st.cursor)))
                   [] OTHER ->
                        Fail(s1, UnexpectedToken(token_tag_of(t.kind), Some(t.span.start)))

\* parse_json_value up to its dispatch
parse_json_value(st) ==
    LET nt == next_token(st)
    IN  IF ~nt.some THEN Fail(st, UnexpectedEOF(Some(st.cursor)))
        ELSE LET t == nt.tok
                 s1 == nt.st
             IN  CASE t.kind = "Null" -> Deliver(s1, JNull)
                   [] t.kind = "Bool" -> Deliver(s1, JBoolean(t.b))
                   [] t.kind = "String" -> Deliver(s1, JsonString(t.s))
                   [] t.kind = "Number" -> Deliver(s1, JNumber(t.n))
                   [] t.kind = "LBrace" ->
                        [s1 EXCEPT !.pc = "obj_first", !.stack = Append(s1.stack, ObjectFrame)]
                   [] t.kind = "LBracket" ->
                        [s1 EXCEPT !.pc = "arr_first", !.stack = Append(s1.stack, ArrayFrame)]
                   [] t.kind = "Eof" -> Fail(s1, UnexpectedEOF(Some(s1.cursor)))
                   [] OTHER ->
                        Fail(s1, UnexpectedToken(token_tag_of(t.kind), Some(t.span.start)))

\* The entry of parse_json_array, were a ',' before the first element skipped
parse_json_array_first_leading_comma(st) ==
    LET p == peek_token(st.tokens)
    IN  IF p = None THEN Fail(st, UnexpectedEOF(Some(st.cursor)))
        ELSE IF p[1].kind = "RBracket" THEN Return(next_token(st).st, JArray(<<>>))
        ELSE IF p[1].kind = "Comma" THEN [next_token(st).st EXCEPT !.pc = "value"]
        ELSE [st EXCEPT !.pc = "value"]

\* parse_json_array from its entry to the parse of the first element
parse_json_array_first(st) ==
    LET p == peek_token(st.tokens)
    IN  IF p = None THEN Fail(st, UnexpectedEOF(Some(st.cursor)))
        ELSE IF p[1].kind = "RBracket" THEN Return(next_token(st).st, JArray(<<>>))
        ELSE [st EXCEPT !.pc = "value"]

\* parse_json_array's loop, were it to take a ']' right after a ','
parse_json_array_loop_trailing_comma(st) ==
    LET p == peek_token(st.tokens)
        s1 == next_token(st).st
    IN  IF p = None THEN Fail(st, UnexpectedEOF(Some(st.cursor)))
        ELSE IF p[1].kind = "Comma"
        THEN IF s1.tokens # <<>> /\ Head(s1.tokens).kind = "RBracket"
             THEN Return(next_token(s1).st, JArray(st.stack[Len(st.stack)].out))
             ELSE [s1 EXCEPT !.pc = "value"]
        ELSE IF p[1].kind = "RBracket"
        THEN Return(s1, JArray(st.stack[Len(st.stack)].out))
        ELSE Fail(st, InvalidArray(token_tag_of(p[1].kind), Some(p[1].span.start)))

\* one turn of the loop, were the unexpected token taken from the queue
parse_json_array_loop_token_taken(st) ==
    LET p == peek_token(st.tokens)
    IN  IF p = None THEN Fail(st, UnexpectedEOF(Some(st.cursor)))
        ELSE IF p[1].kind = "Comma" THEN [next_token(st).st EXCEPT !.pc = "value"]
        ELSE IF p[1].kind = "RBracket"
        THEN Return(next_token(st).st, JArray(st.stack[Len(st.stack)].out))
        ELSE Fail(next_token(st).st,
                  InvalidArray(token_tag_of(p[1].kind), Some(p[1].span.start)))

\* one turn of parse_json_array's loop
parse_json_array_loop(st) ==
    LET p == peek_token(st.tokens)
    IN  IF p = None THEN Fail(st, UnexpectedEOF(Some(st.cursor)))
        ELSE IF p[1].kind = "Comma" THEN [next_token(st).st EXCEPT !.pc = "value"]
        ELSE IF p[1].kind = "RBracket"
        THEN Return(next_token(st).st, JArray(st.stack[Len(st.stack)].out))
        ELSE Fail(st, InvalidArray(token_tag_of(p[1].kind), Some(p[1].span.start)))

\* parse_json_object from its entry to the parse of the first key
parse_json_object_first(st) ==
    LET p == peek_token(st.tokens)
    IN  IF p = None THEN Fail(st, UnexpectedEOF(Some(st.cursor)))
        ELSE IF p[1].kind = "RBrace" THEN Return(next_token(st).st, JObject(<<>>))
        ELSE [st EXCEPT !.pc = "obj_key"]

\* parse_object_key, were the sentinel to fall into the arm of the other tokens
parse_object_key_no_eof_arm(st) ==
    LET nt == next_token(st)
    IN  IF ~nt.some THEN Fail(st, UnexpectedEOF(Some(st.cursor)))
        ELSE IF nt.tok.kind = "String"
        THEN [nt.st EXCEPT !.pc = "obj_colon",
                           !.stack[Len(st.stack)].key = Some(nt.tok.s)]
        ELSE Fail(nt.st, InvalidJsonObject(token_tag_of(nt.tok.kind), Some(nt.tok.span.start)))

\* parse_object_key; the key becomes parse_json_object's `key`
parse_object_key(st) ==
    LET nt == next_token(st)
    IN  IF ~nt.some THEN Fail(st, UnexpectedEOF(Some(st.cursor)))
        ELSE LET t == nt.tok
                 s1 == nt.st
             IN  IF t.kind = "String"
                 THEN [s1 EXCEPT !.pc = "obj_colon", !.stack[Len(s1.stack)].key = Some(t.s)]
                 ELSE IF t.kind = "Eof" THEN Fail(s1, UnexpectedEOF(Some(s1.cursor)))
                 ELSE Fail(s1, InvalidJsonObject(token_tag_of(t.kind), Some(t.span.start)))

\* consume_kind, were it to have parse_object_key's arm for the sentinel
consume_kind_eof_arm(st, expected) ==
    LET nt == next_token(st)
    IN  IF ~nt.some THEN Fail(st, UnexpectedEOF(Some(st.cursor)))
        ELSE IF nt.tok.kind = expected THEN [nt.st EXCEPT !.pc = "value"]
        ELSE IF nt.tok.kind = "Eof" THEN Fail(nt.st, UnexpectedEOF(Some(nt.st.cursor)))
        ELSE Fail(nt.st, InvalidJsonObject(token_tag_of(nt.tok.kind),
                                           Some(nt.tok.span.start)))

\* consume_kind(tokens, expected, cursor); on Ok the value of the pair is parsed next
consume_kind(st, expected) ==
    LET nt == next_token(st)
    IN  IF ~nt.some THEN Fail(st, UnexpectedEOF(Some(st.cursor)))
        ELSE IF nt.tok.kind = expected THEN [nt.st EXCEPT !.pc = "value"]
        ELSE Fail(nt.st, InvalidJsonObject(token_tag_of(nt.tok.kind),
                                           Some(nt.tok.span.start)))

\* one turn of parse_json_object's loop
parse_json_object_loop(st) ==
    LET p == peek_token(st.tokens)
    IN  IF p = None THEN Fail(st, UnexpectedEOF(Some(st.cursor)))
        ELSE IF p[1].kind = "Comma" THEN [next_token(st).st EXCEPT !.pc = "obj_key"]
        ELSE IF p[1].kind = "RBrace"
        THEN Return(next_token(st).st, JObject(st.stack[Len(st.stack)].out))
        ELSE Fail(st, InvalidJsonObject(token_tag_of(p[1].kind), Some(p[1].span.start)))

\* The end of process_json_string_v2, were it to return the value without looking
\* at what follows it
expect_eof_unchecked(st) ==
    LET nt == next_token(st)
    IN  IF ~nt.some THEN Fail(st, UnexpectedEOF(Some(st.cursor)))
        ELSE [nt.st EXCEPT !.pc = "done", !.result = RetOk(nt.st.json_value)]

\* The end-of-input check, were it to report where the offending token ends
expect_eof_at_cursor(st) ==
    LET nt == next_token(st)
    IN  IF ~nt.some THEN Fail(st, UnexpectedEOF(Some(st.cursor)))
        ELSE IF nt.tok.kind # "Eof"
        THEN Fail(nt.st, ExpectedEOF(token_tag_of(nt.tok.kind), Some(nt.st.cursor)))
        ELSE [nt.st EXCEPT !.pc = "done", !.result = RetOk(nt.st.json_value)]

\* process_json_string_v2 after the top-level value: the end-of-input check
expect_eof(st) ==
    LET nt == next_token(st)
    IN  IF ~nt.some THEN Fail(st, UnexpectedEOF(Some(st.cursor)))
        ELSE IF nt.tok.kind # "Eof"
        THEN Fail(nt.st, ExpectedEOF(token_tag_of(nt.tok.kind), Some(nt.tok.span.start)))
        ELSE [nt.st EXCEPT !.pc = "done", !.result = RetOk(nt.st.json_value)]

\* process_json_string_v2 after lex_all, were a lexer error reported as the end
\* of the input
process_json_string_v2_lexed_as_eof(st, r) ==
    IF ~r.ok THEN Fail(st, UnexpectedEOF(Some(r.cursor)))
    ELSE [st EXCEPT !.pc = "value", !.tokens = r.v,
                    !.cursor = IF r.v = <<>> THEN 0 ELSE Head(r.v).span.start]

\* process_json_string_v2 once lex_all has returned r
process_json_string_v2_lexed(st, r) ==
    IF ~r.ok THEN Fail(st, LexError(r.e))
    ELSE [st EXCEPT !.pc = "value", !.tokens = r.v,
                    !.cursor = IF r.v = <<>> THEN 0 ELSE Head(r.v).span.start]

\* process_json_string_v2's entry, were the is_empty test missing
process_json_string_v2_begin_no_empty_test(st, json_string) ==
    process_json_string_v2_lexed(st, lex_all(json_string))

\* process_json_string_v2 from its entry to the call of parse_json_value
process_json_string_v2_begin(st, json_string) ==
    IF json_string = <<>> THEN Fail(st, EmptyJsonFile)
    ELSE process_json_string_v2_lexed(st, lex_all(json_string))

-----------------------------------------------------------------------------
(* The inputs *)

MaxChunks == 4
MaxDepth == 3
MaxPairs == 3

\* The concatenation of the byte strings cs[1], cs[2], ...
RECURSIVE Concat(_)
Concat(cs) == IF cs = <<>> THEN <<>> ELSE Head(cs) \o Concat(Tail(cs))

\* s without its byte at offset i
DeleteAt(s, i) == SubSeq(s, 1, i) \o SubSeq(s, i + 2, Len(s))

\* [ ] { } , : 1 "a" true null, a space and ';', which starts no token
ParserChunks ==
    { <<B_LBRACKET>>, <<B_RBRACKET>>, <<B_LBRACE>>, <<B_RBRACE>>, <<B_COMMA>>, <<B_COLON>>,
      <<B_0 + 1>>, <<B_QUOTE, B_a, B_QUOTE>>, TRUE_BYTES, NULL_LITERAL,
      <<B_SPACE>>, <<B_COLON + 1>> }

\* json_string is made of at most MaxChunks of the chunks
IsShortInput(json_string) ==
    \E k \in 0..MaxChunks : \E cs \in [1..k -> ParserChunks] : json_string = Concat(cs)

\* [1], [1,[2]], [1,[2,[3]]], ...: d arrays, one in the other
RECURSIVE NestFrom(_, _)
NestFrom(k, d) ==
    IF k = d THEN <<B_LBRACKET, B_0 + k, B_RBRACKET>>
    ELSE <<B_LBRACKET, B_0 + k, B_COMMA>> \o NestFrom(k + 1, d) \o <<B_RBRACKET>>

Nest(d) == NestFrom(1, d)

\* The nested arrays, whole and with any one byte removed
NestInputs ==
    UNION { {Nest(d)} \cup {DeleteAt(Nest(d), i) : i \in 0..(Len(Nest(d)) - 1)} : d \in 1..MaxDepth }

ObjKeys == {<<B_a>>, <<B_b>>, <<B_e>>}
\* The value of the n-th pair of an object: the digit n
ObjVal(n) == <<B_0 + n>>

\* "k":v
PairText(k, v) == <<B_QUOTE>> \o k \o <<B_QUOTE, B_COLON>> \o v

\* "k1":1,"k2":2,... with exactly n pairs
RECURSIVE PairLists(_)
PairLists(n) ==
    IF n = 1 THEN {PairText(k, ObjVal(1)) : k \in ObjKeys}
    ELSE {x \o <<B_COMMA>> \o PairText(k, ObjVal(n)) : x \in PairLists(n - 1), k \in ObjKeys}

\* {"k":v,...} with up to MaxPairs pairs, keys repeated or not
ObjTexts ==
    UNION { {<<B_LBRACE>> \o x \o <<B_RBRACE>> : x \in PairLists(n)} : n \in 1..MaxPairs }

\* The objects, whole and with any one byte removed
ObjInputs == ObjTexts \cup UNION { {DeleteAt(x, i) : i \in 0..(Len(x) - 1)} : x \in ObjTexts }

\* {"k1":{"k2":1,"k3":2},"k4":3}: an object in an object
ObjNestInputs ==
    {<<B_LBRACE, B_QUOTE>> \o k1 \o <<B_QUOTE, B_COLON, B_LBRACE>>
        \o PairText(k2, <<B_0 + 1>>) \o <<B_COMMA>> \o PairText(k3, <<B_0 + 2>>)
        \o <<B_RBRACE, B_COMMA>> \o PairText(k4, <<B_0 + 3>>) \o <<B_RBRACE>> :
     k1 \in ObjKeys, k2 \in ObjKeys, k3 \in ObjKeys, k4 \in ObjKeys}

\* What may stand where an object of some pairs should go on or end:
\* ,}  ,  ,1}  ,:  ,"a"}  ,"a"  ,"a",}  "a"}  :}  and  1}
ObjTails ==
    { <<B_COMMA, B_RBRACE>>, <<B_COMMA>>, <<B_COMMA, B_0 + 1, B_RBRACE>>,
      <<B_COMMA, B_COLON>>,
      <<B_COMMA, B_QUOTE, B_a, B_QUOTE, B_RBRACE>>,
      <<B_COMMA, B_QUOTE, B_a, B_QUOTE>>,
      <<B_COMMA, B_QUOTE, B_a, B_QUOTE, B_COMMA, B_RBRACE>>,
      <<B_QUOTE, B_a, B_QUOTE, B_RBRACE>>,
      <<B_COLON, B_RBRACE>>,
      <<B_SPACE, B_0 + 1, B_RBRACE>> }

\* {"k":v,... with up to MaxPairs pairs and one of the tails above
ObjTailInputs ==
    UNION { {<<B_LBRACE>> \o x \o tl : x \in PairLists(n), tl \in ObjTails} : n \in 1..MaxPairs }

\* Numbers, strings and keywords, well formed and not:
\* -0  10  -1.5  0.5e1  1E+2  2e-1  1e400  1e-400  false  "\u0041"  "\n\\\/"
\* "<C3 A9>"  "a b"  ""  01  1.  "\ud800"  nul  truex  -  "\u00e9"  "a"x  1.5x
\* -0.0e-1
ScalarSamples ==
    {<<45, 48>>,
      <<49, 48>>,
      <<45, 49, 46, 53>>,
      <<48, 46, 53, 101, 49>>,
      <<49, 69, 43, 50>>,
      <<50, 101, 45, 49>>,
      <<49, 101, 52, 48, 48>>,
      <<49, 101, 45, 52, 48, 48>>,
      <<102, 97, 108, 115, 101>>,
      <<34, 92, 117, 48, 48, 52, 49, 34>>,
      <<34, 92, 110, 92, 92, 92, 47, 34>>,
      <<34, 195, 169, 34>>,
      <<34, 97, 32, 98, 34>>,
      <<34, 34>>,
      <<48, 49>>,
      <<49, 46>>,
      <<34, 92, 117, 100, 56, 48, 48, 34>>,
      <<110, 117, 108>>,
      <<116, 114, 117, 101, 120>>,
      <<45>>,
      <<34, 92, 117, 48, 48, 101, 57, 34>>,
      <<34, 97, 34, 120>>,
      <<49, 46, 53, 120>>,
      <<45, 48, 46, 48, 101, 45, 49>> }

\* The inputs of process_json_string_v2 that are looked at; a sample stands
\* alone, between spaces, in an array, as the value of a pair and as its key
IsInput(json_string) ==
    \/ IsShortInput(json_string)
    \/ json_string \in NestInputs \cup ObjInputs \cup ObjNestInputs \cup ObjTailInputs
    \/ \E x \in ScalarSamples :
          json_string \in { x, <<B_SPACE>> \o x \o <<B_SPACE>>,
                            <<B_LBRACKET>> \o x \o <<B_COMMA>> \o x \o <<B_RBRACKET>>,
                            <<B_LBRACE>> \o PairText(<<B_a>>, x) \o <<B_RBRACE>>,
                            <<B_LBRACE>> \o x \o <<B_COLON>> \o x \o <<B_RBRACE>> }

MaxNumLen == 5
MaxStrLen == 5


\* - 0 1 . e E + and the delimiter ','
NumBytes == {B_MINUS, B_0, B_0 + 1, B_9, B_DOT, B_e, B_UE, B_PLUS, B_COMMA}

\* bytes is at most MaxNumLen of these bytes
IsNumInput(bytes) == \E k \in 0..MaxNumLen : bytes \in [1..k -> NumBytes]

\* " \ / b f n r t: the eight escape characters, six of them letters
StrBytes == {B_QUOTE, B_BACKSLASH, B_SLASH, B_b, B_f, B_n, B_r, B_t}

\* An opening quote and at most MaxStrLen bytes
IsStrInput(bytes) ==
    \E k \in 0..MaxStrLen : \E x \in [1..k -> StrBytes] : bytes = <<B_QUOTE>> \o x

\* 0 1 4 7 8 9 a f A D E F
HexSample == {B_0, B_0 + 1, B_0 + 4, B_0 + 7, B_0 + 8, B_9, B_a, B_f, B_UA, B_UA + 3, B_UE, B_UF}

\* \uXXXX
UniEscape(d) == <<B_BACKSLASH, B_u>> \o d

\* What stands before and after the escape: nothing; nothing and \u0042; b and b;
\* nothing and the low surrogate \uDF00; the high surrogate \uD800 and nothing
UniAffixes ==
    { <<<<>>, <<>>>>,
      <<<<>>, UniEscape(<<B_0, B_0, B_0 + 4, B_0 + 2>>)>>,
      <<<<B_b>>, <<B_b>>>>,
      <<<<>>, UniEscape(<<B_UA + 3, B_UF, B_0, B_0>>)>>,
      <<UniEscape(<<B_UA + 3, B_0 + 8, B_0, B_0>>), <<>>>> }

\* "pre \uXXXX suf" for every four sample digits
UniInputs ==
    { <<B_QUOTE>> \o a[1] \o UniEscape(d) \o a[2] \o <<B_QUOTE>> :
        a \in UniAffixes, d \in [1..4 -> HexSample] }

\* String literals of bytes above 0x7F: e-acute, the euro sign, U+D7FF, an emoji,
\* the three bytes that would encode U+D800, and a lone continuation byte
RawUtf8Inputs ==
    { <<B_QUOTE>> \o x \o <<B_QUOTE>> :
        x \in { <<195, 169>>, <<226, 130, 172>>, <<237, 159, 191>>,
                 <<240, 159, 152, 128>>, <<237, 160, 128>>, <<128>> } }

\* The digit characters of the decimal digits ds
Digits(ds) == [i \in 1..Len(ds) |-> B_0 + ds[i]]

\* Numbers at the two ends of the f64 range, alone, negated, after ", " and
\* before ",": 1e308 1e309 1.7e308 1.8e308 1.79769313e308 1.79769314e308
\* 17e307 18e307 0.1e309 0.1e310 1e-999 1E+999 0e999
BigNumInputs ==
    { pre \o x \o suf :
        pre \in {<<>>, <<B_MINUS>>, <<B_COMMA, B_SPACE>>},
        suf \in {<<>>, <<B_COMMA>>},
        x \in { Digits(<<1>>) \o <<B_e>> \o Digits(<<3, 0, 8>>),
                Digits(<<1>>) \o <<B_e>> \o Digits(<<3, 0, 9>>),
                Digits(<<1>>) \o <<B_DOT>> \o Digits(<<7>>) \o <<B_e>> \o Digits(<<3, 0, 8>>),
                Digits(<<1>>) \o <<B_DOT>> \o Digits(<<8>>) \o <<B_e>> \o Digits(<<3, 0, 8>>),
                Digits(<<1>>) \o <<B_DOT>> \o Digits(<<7, 9, 7, 6, 9, 3, 1, 3>>)
                    \o <<B_e>> \o Digits(<<3, 0, 8>>),
                Digits(<<1>>) \o <<B_DOT>> \o Digits(<<7, 9, 7, 6, 9, 3, 1, 4>>)
                    \o <<B_e>> \o Digits(<<3, 0, 8>>),
                Digits(<<1, 7>>) \o <<B_e>> \o Digits(<<3, 0, 7>>),
                Digits(<<1, 8>>) \o <<B_e>> \o Digits(<<3, 0, 7>>),
                Digits(<<0>>) \o <<B_DOT>> \o Digits(<<1>>) \o <<B_e>> \o Digits(<<3, 0, 9>>),
                Digits(<<0>>) \o <<B_DOT>> \o Digits(<<1>>) \o <<B_e>> \o Digits(<<3, 1, 0>>),
                Digits(<<1>>) \o <<B_e, B_MINUS>> \o Digits(<<9, 9, 9>>),
                Digits(<<1>>) \o <<B_UE, B_PLUS>> \o Digits(<<9, 9, 9>>),
                Digits(<<0>>) \o <<B_e>> \o Digits(<<9, 9, 9>>) } }

\* Every byte value at a token start: first in the input, after the four
\* whitespace bytes, after '[1,'; last in the input or before '1'
AnyByteInputs ==
    { pre \o <<b>> \o suf :
        b \in 0..255,
        pre \in {<<>>, <<B_SPACE, B_TAB, B_CR, B_LF>>, <<B_LBRACKET, B_0 + 1, B_COMMA>>},
        suf \in {<<>>, <<B_0 + 1>>} }

MaxLitTail == 2

\* A keyword, whole or with one byte after its first replaced by 'x', 'e', ' '
\* or ','
LitSpellings ==
    UNION { {kw} \cup {[kw EXCEPT ![i] = c] : i \in 2..Len(kw), c \in {120, B_e, B_SPACE, B_COMMA}} :
            kw \in {TRUE_BYTES, FALSE_BYTES, NULL_LITERAL} }

\* x e t 1 space and ','
LitTailBytes == {120, B_e, B_t, B_0 + 1, B_SPACE, B_COMMA}

\* bytes is: nothing or ", " in front, the first bytes of a spelling, and at most
\* MaxLitTail more bytes
IsLitInput(bytes) ==
    \E pre \in {<<>>, <<B_COMMA, B_SPACE>>} : \E w \in LitSpellings :
        \E n \in 1..Len(w) : \E k \in 0..MaxLitTail : \E tail \in [1..k -> LitTailBytes] :
            bytes = pre \o SubSeq(w, 1, n) \o tail

\* The inputs of lex_all that are looked at
MaxEscLen == 5
MaxWs == 2
MaxTermLen == 4

\* " \ u a x, the last control byte 0x1F and the first byte that is none, 0x20
EscBytes == {B_QUOTE, B_BACKSLASH, B_u, B_a, 120, CTRL_MAX, B_SPACE}

\* An opening quote, first in the input or after a space, and at most
\* MaxEscLen bytes
IsEscInput(bytes) ==
    \E k \in 0..MaxEscLen : \E x \in [1..k -> EscBytes] :
        bytes = <<B_QUOTE>> \o x \/ bytes = <<B_SPACE, B_QUOTE>> \o x

\* Every byte value inside a string, after a character and after a backslash,
\* with the closing quote and without
StrAnyByteInputs ==
    { <<B_QUOTE>> \o mid \o <<b>> \o suf :
        b \in 0..255,
        mid \in {<<B_a>>, <<B_BACKSLASH>>},
        suf \in {<<>>, <<B_QUOTE>>} }

\* a and the bytes next to the hex digit ranges: / : @ G ` g; " and 0x1F
HexFaultSample == {B_a, 47, 58, 64, 71, 96, 103, B_QUOTE, CTRL_MAX}

\* "\uXXXX with and without the closing quote, for every four of the bytes
\* above, first in the string or after a character
HexFaultInputs ==
    { <<B_QUOTE>> \o pre \o UniEscape(d) \o suf :
        pre \in {<<>>, <<B_a>>},
        suf \in {<<>>, <<B_QUOTE>>},
        d \in [1..4 -> HexFaultSample] }

IsLexInput(bytes) ==
    \/ IsNumInput(bytes)
    \/ IsStrInput(bytes)
    \/ IsLitInput(bytes)
    \/ IsEscInput(bytes)
    \/ bytes \in UniInputs \cup RawUtf8Inputs \cup BigNumInputs \cup AnyByteInputs
    \/ bytes \in StrAnyByteInputs \cup HexFaultInputs

-----------------------------------------------------------------------------
(* The state machine of one call of process_json_string_v2 *)

StateRec ==
    [pc |-> pc, tokens |-> tokens, cursor |-> cursor, stack |-> stack,
     json_value |-> json_value, popped |-> popped, result |-> result]

Apply(s) ==
    /\ pc' = s.pc
    /\ tokens' = s.tokens
    /\ cursor' = s.cursor
    /\ stack' = s.stack
    /\ json_value' = s.json_value
    /\ popped' = s.popped
    /\ result' = s.result
    /\ UNCHANGED <<input, lexcur>>

InitLocals ==
    /\ lexcur = 0
    /\ tokens = <<>>
    /\ cursor = 0
    /\ stack = <<>>
    /\ json_value = NoValue
    /\ popped = <<>>
    /\ result = NoResult

Init ==
    /\ IsInput(input)
    /\ pc = "start"
    /\ InitLocals

Begin == pc = "start" /\ Apply(process_json_string_v2_begin(StateRec, input))

ParseValue == pc = "value" /\ Apply(parse_json_value(StateRec))

ArrayFirst == pc = "arr_first" /\ Apply(parse_json_array_first(StateRec))

ArrayLoop == pc = "arr_loop" /\ Apply(parse_json_array_loop(StateRec))

ObjectFirst == pc = "obj_first" /\ Apply(parse_json_object_first(StateRec))

ObjectKey == pc = "obj_key" /\ Apply(parse_object_key(StateRec))

ObjectColon == pc = "obj_colon" /\ Apply(consume_kind(StateRec, "Colon"))

ObjectLoop == pc = "obj_loop" /\ Apply(parse_json_object_loop(StateRec))

ExpectEof == pc = "eof_check" /\ Apply(expect_eof(StateRec))

Next ==
    \/ Begin
    \/ ParseValue
    \/ ArrayFirst
    \/ ArrayLoop
    \/ ObjectFirst
    \/ ObjectKey
    \/ ObjectColon
    \/ ObjectLoop
    \/ ExpectEof

Spec == Init /\ [][Next]_vars

-----------------------------------------------------------------------------
(* The state machine of one call of lex_all: one step per turn of its loop *)

\* The body of lex_all's loop once next_token has returned r.
\* The loop body, were the test for the sentinel to stand before push_back
LexApply_eof_unpushed(r) ==
    /\ lexcur' = r.cursor
    /\ tokens' = IF ~r.ok THEN <<>>
                 ELSE IF r.v.kind = "Eof" THEN tokens
                 ELSE Append(tokens, r.v)
    /\ pc' = IF r.ok /\ r.v.kind # "Eof" THEN "lex" ELSE "done"
    /\ result' = IF ~r.ok THEN RetErr(r.e)
                 ELSE IF r.v.kind = "Eof" THEN RetOk(tokens)
                 ELSE result
    /\ UNCHANGED <<input, cursor, stack, json_value, popped>>

LexApply(r) ==
    /\ lexcur' = r.cursor
    /\ tokens' = IF r.ok THEN Append(tokens, r.v) ELSE <<>>
    /\ pc' = IF r.ok /\ r.v.kind # "Eof" THEN "lex" ELSE "done"
    /\ result' = IF ~r.ok THEN RetErr(r.e)
                 ELSE IF r.v.kind = "Eof" THEN RetOk(Append(tokens, r.v))
                 ELSE result
    /\ UNCHANGED <<input, cursor, stack, json_value, popped>>

LexInit ==
    /\ IsLexInput(input)
    /\ pc = "lex"
    /\ InitLocals

LexStep == pc = "lex" /\ LexApply(lexer_next_token(input, lexcur))

LexNext == LexStep

LexSpec == LexInit /\ [][LexNext]_vars

\* The inputs lex_all is followed on to its return: at most MaxTermLen of the
\* bytes " \ 1 - , n and space, and every byte value at a token start
LexFairInit ==
    /\ \/ \E k \in 0..MaxTermLen :
             input \in [1..k -> {B_QUOTE, B_BACKSLASH, B_0 + 1, B_MINUS, B_COMMA, B_n, B_SPACE}]
       \/ input \in AnyByteInputs
    /\ pc = "lex"
    /\ InitLocals

\* lex_all's loop goes on as long as it has not returned: weak fairness of
\* LexNext, WF_vars(LexNext), with ENABLED <<LexNext>>_vars written out as
\* pc = "lex" (a turn of the loop can be taken, and changes the state, exactly
\* while the loop has not been left)
LexFairSpec ==
    LexFairInit /\ [][LexNext]_vars /\ ([]<>(pc # "lex") \/ []<><<LexNext>>_vars)

-----------------------------------------------------------------------------
(* process_json_string_v2 as a function of its argument, and the inputs that   *)
(* differ by whitespace between their tokens                                   *)

\* One handler of the parse of json_string, run in the state st
StepOf(st, json_string) ==
    CASE st.pc = "start" -> process_json_string_v2_begin(st, json_string)
      [] st.pc = "value" -> parse_json_value(st)
      [] st.pc = "arr_first" -> parse_json_array_first(st)
      [] st.pc = "arr_loop" -> parse_json_array_loop(st)
      [] st.pc = "obj_first" -> parse_json_object_first(st)
      [] st.pc = "obj_key" -> parse_object_key(st)
      [] st.pc = "obj_colon" -> consume_kind(st, "Colon")
      [] st.pc = "obj_loop" -> parse_json_object_loop(st)
      [] st.pc = "eof_check" -> expect_eof(st)

RECURSIVE RunParser(_, _)
RunParser(st, json_string) ==
    IF st.pc = "done" THEN st.result
    ELSE RunParser(StepOf(st, json_string), json_string)

\* What process_json_string_v2(json_string) returns
process_json_string_v2(json_string) ==
    RunParser([pc |-> "start", tokens |-> <<>>, cursor |-> 0, stack |-> <<>>,
               json_value |-> NoValue, popped |-> <<>>, result |-> NoResult],
              json_string)

WsBytes == {B_SPACE, B_TAB, B_CR, B_LF}

\* s with the byte w put in before its byte at offset p
InsertAt(s, p, w) == SubSeq(s, 1, p) \o <<w>> \o SubSeq(s, p + 1, Len(s))

\* The offsets of bytes that are in no token: from cur on, the offsets up to the
\* start of the next token, and those after it if it is a token and not the
\* sentinel.  The text from a token that fails to lex has none.
RECURSIVE WsPoints(_, _)
WsPoints(bytes, cur) ==
    LET r == lexer_next_token(bytes, cur)
    IN  (cur..skip_ws(bytes, cur)) \cup
        (IF r.ok /\ r.v.kind # "Eof" THEN WsPoints(bytes, r.cursor) ELSE {})

\* [1,[2]]  {"a":1}  {"a":1,}  [1,2  [1 ;]  tx  "a  -1.5  1 1  and nothing
WsSamples ==
    { Nest(2),
      <<B_LBRACE>> \o PairText(<<B_a>>, <<B_0 + 1>>) \o <<B_RBRACE>>,
      <<B_LBRACE>> \o PairText(<<B_a>>, <<B_0 + 1>>) \o <<B_COMMA, B_RBRACE>>,
      <<B_LBRACKET, B_0 + 1, B_COMMA, B_0 + 2>>,
      <<B_LBRACKET, B_0 + 1, B_SPACE, B_COLON + 1, B_RBRACKET>>,
      <<B_t, 120>>,
      <<B_QUOTE, B_a>>,
      <<B_MINUS, B_0 + 1, B_DOT, B_0 + 5>>,
      <<B_0 + 1, B_SPACE, B_0 + 1>>,
      <<>> }

\* The texts whitespace is put into: the samples and any two chunks
IsWsBase(json_string) ==
    \/ json_string \in WsSamples
    \/ \E a \in ParserChunks : \E b \in ParserChunks : json_string = a \o b

\* The whitespace bytes of s
WsCount(s) == Cardinality({i \in 1..Len(s) : s[i] \in WsBytes})

WsInit ==
    /\ IsWsBase(input)
    /\ pc = "start"
    /\ InitLocals

\* One more whitespace byte between two tokens, or before the first or after
\* the last
InsertWs ==
    /\ WsCount(input) < MaxWs
    /\ \E p \in WsPoints(input, 0) : \E w \in WsBytes : input' = InsertAt(input, p, w)
    /\ UNCHANGED <<pc, lexcur, tokens, cursor, stack, json_value, popped, result>>

WsNext == InsertWs

WsSpec == WsInit /\ [][WsNext]_vars

-----------------------------------------------------------------------------
(* The single-pass parser (json_parsing_naive.rs).  A function gets the text   *)
(* and current_index and gives Ok(value, current_index) or Err(error,          *)
(* current_index); the errors are the variants of its own JsonParsingError.    *)

RECURSIVE trim_spaces(_, _)
trim_spaces(json_string, current_index) ==
    IF current_index < Len(json_string)
       /\ At(json_string, current_index) \in {B_SPACE, B_LF, B_CR, B_TAB}
    THEN trim_spaces(json_string, current_index + 1)
    ELSE current_index

\* is_delimiter, were ':' not one
is_delimiter_no_colon(b) == b \in {B_SPACE, B_LF, B_CR, B_TAB, B_COMMA, B_RBRACKET, B_RBRACE}

is_delimiter(b) ==
    b \in {B_SPACE, B_LF, B_CR, B_TAB, B_COMMA, B_RBRACKET, B_RBRACE, B_COLON}

ensure_delimiter_or_eof(bytes, index) ==
    index = Len(bytes) \/ is_delimiter(At(bytes, index))

\* The naive parser's consume_literal: whether lit stands at index, and the
\* index after it
naive_consume_literal(bytes, index, lit) ==
    IF index + Len(lit) > Len(bytes) THEN [ok |-> FALSE, index |-> index]
    ELSE IF Slice(bytes, index, index + Len(lit)) = lit
    THEN [ok |-> TRUE, index |-> index + Len(lit)]
    ELSE [ok |-> FALSE, index |-> index]

parse_null(bytes, current_index) ==
    LET next == current_index + Len(NULL_LITERAL)
    IN  IF next > Len(bytes) THEN Err([e |-> "InvalidJsonFile"], current_index)
        ELSE IF Slice(bytes, current_index, next) # NULL_LITERAL
        THEN Err([e |-> "InvalidJsonFile"], current_index)
        ELSE IF next < Len(bytes) /\ ~is_delimiter(At(bytes, next))
        THEN Err([e |-> "InvalidJsonFile"], current_index)
        ELSE Ok(JNull, next)

parse_bool(bytes, current_index) ==
    IF current_index >= Len(bytes) THEN Err([e |-> "InvalidJsonFile"], current_index)
    ELSE LET b == At(bytes, current_index)
             lit == IF b = B_t THEN TRUE_BYTES ELSE FALSE_BYTES
             c == naive_consume_literal(bytes, current_index, lit)
         IN  IF b # B_t /\ b # B_f THEN Err([e |-> "InvalidJsonFile"], current_index)
             ELSE IF ~c.ok THEN Err([e |-> "InvalidJsonFile"], c.index)
             ELSE IF ~ensure_delimiter_or_eof(bytes, c.index)
             THEN Err([e |-> "InvalidJsonFile"], c.index)
             ELSE Ok(JBoolean(b = B_t), c.index)

\* parse_number; scan is its while loop, which ends with bad = TRUE where it
\* returns InvalidJsonFile.  The lexeme parsed is the one after the sign, and
\* the product with -1.0 changes the sign.
parse_number(bytes, index0) ==
    LET negative == At(bytes, index0) = B_MINUS
        index1 == IF negative THEN index0 + 1 ELSE index0
        RECURSIVE scan(_, _)
        scan(i, fl) ==
            IF i >= Len(bytes) THEN [bad |-> FALSE, index |-> i, fl |-> fl]
            ELSE LET b == At(bytes, i)
                 IN  IF b >= B_0 /\ b <= B_9
                     THEN scan(i + 1, [fl EXCEPT !.need_frac_digit = FALSE,
                                                 !.need_exp_digit = FALSE,
                                                 !.exp_sign_allowed = FALSE])
                     ELSE IF b = B_DOT
                     THEN IF fl.seen_dot \/ fl.seen_exp
                          THEN [bad |-> TRUE, index |-> i, fl |-> fl]
                          ELSE scan(i + 1, [fl EXCEPT !.seen_dot = TRUE,
                                                      !.need_frac_digit = TRUE,
                                                      !.exp_sign_allowed = FALSE])
                     ELSE IF b = B_e \/ b = B_UE
                     THEN IF fl.seen_exp \/ fl.need_frac_digit
                          THEN [bad |-> TRUE, index |-> i, fl |-> fl]
                          ELSE scan(i + 1, [fl EXCEPT !.seen_exp = TRUE,
                                                      !.need_exp_digit = TRUE,
                                                      !.exp_sign_allowed = TRUE])
                     ELSE IF b = B_PLUS \/ b = B_MINUS
                     THEN IF ~fl.exp_sign_allowed
                          THEN [bad |-> TRUE, index |-> i, fl |-> fl]
                          ELSE scan(i + 1, [fl EXCEPT !.exp_sign_allowed = FALSE])
                     ELSE [bad |-> FALSE, index |-> i, fl |-> fl]
    IN  IF index1 >= Len(bytes) \/ ~IsAsciiDigit(At(bytes, index1))
        THEN Err([e |-> "InvalidJsonFile"], index1)
        ELSE IF At(bytes, index1) = B_0 /\ index1 + 1 < Len(bytes)
                /\ IsAsciiDigit(At(bytes, index1 + 1))
        THEN Err([e |-> "LeadingZero"], index1)
        ELSE LET sc == scan(index1, [seen_dot |-> FALSE, seen_exp |-> FALSE,
                                     need_frac_digit |-> FALSE, need_exp_digit |-> FALSE,
                                     exp_sign_allowed |-> FALSE])
             IN  IF sc.bad \/ sc.fl.need_frac_digit \/ sc.fl.need_exp_digit
                 THEN Err([e |-> "InvalidJsonFile"], sc.index)
                 ELSE IF ~ensure_delimiter_or_eof(bytes, sc.index)
                 THEN Err([e |-> "InvalidJsonFile"], sc.index)
                 ELSE LET num == ParseF64(Slice(bytes, index1, sc.index))
                      IN  Ok(JNumber(IF negative THEN [num EXCEPT !.neg = ~num.neg] ELSE num),
                             sc.index)

\* parse_string with the naive parser's consume_escape_char and
\* consume_unicode; loop is its while loop, entered after the opening quote
parse_string(bytes, index0) ==
    LET hex(b) == IF b >= B_0 /\ b <= B_9 THEN b - 48
                  ELSE IF b >= B_UA /\ b <= B_UF THEN b - 65 + 10
                  ELSE IF b >= B_a /\ b <= B_f THEN b - 97 + 10
                  ELSE 0 - 1
        unicode(at_u) ==
            LET c == at_u + 1
            IN  IF \E k \in 0..3 : c + k >= Len(bytes) \/ hex(At(bytes, c + k)) < 0
                THEN Err([e |-> "InvalidUnicodeInString"], c)
                ELSE LET code == hex(At(bytes, c)) * 4096 + hex(At(bytes, c + 1)) * 256
                                   + hex(At(bytes, c + 2)) * 16 + hex(At(bytes, c + 3))
                     IN  IF code >= 55296 /\ code <= 57343
                         THEN Err([e |-> "InvalidUnicodeInString"], c + 4)
                         ELSE Ok(encode_utf8(code), c + 4)
        escape(at_backslash) ==
            LET c == at_backslash + 1
            IN  IF at_backslash >= Len(bytes) \/ At(bytes, at_backslash) # B_BACKSLASH
                THEN Err([e |-> "InvalidJsonFile"], at_backslash)
                ELSE IF c >= Len(bytes) THEN Err([e |-> "InvalidJsonFile"], c)
                ELSE LET b == At(bytes, c)
                     IN  CASE b = B_QUOTE -> Ok(<<B_QUOTE>>, c + 1)
                           [] b = B_BACKSLASH -> Ok(<<B_BACKSLASH>>, c + 1)
                           [] b = B_SLASH -> Ok(<<B_SLASH>>, c + 1)
                           [] b = B_b -> Ok(<<8>>, c + 1)
                           [] b = B_f -> Ok(<<12>>, c + 1)
                           [] b = B_n -> Ok(<<B_LF>>, c + 1)
                           [] b = B_r -> Ok(<<B_CR>>, c + 1)
                           [] b = B_t -> Ok(<<B_TAB>>, c + 1)
                           [] b = B_u -> unicode(c)
                           [] OTHER -> Err([e |-> "InvalidJsonFile"], c)
        RECURSIVE loop(_, _, _)
        loop(i, out, run_start) ==
            IF i >= Len(bytes) THEN Err([e |-> "InvalidJsonFile"], i)
            ELSE LET b == At(bytes, i)
                 IN  IF b = B_BACKSLASH
                     THEN LET r == escape(i)
                          IN  IF ~r.ok THEN r
                              ELSE loop(r.cursor, out \o Slice(bytes, run_start, i) \o r.v,
                                        r.cursor)
                     ELSE IF b = B_QUOTE
                     THEN Ok(out \o Slice(bytes, run_start, i), i + 1)
                     ELSE IF b <= 31 THEN Err([e |-> "InvalidJsonFile"], i)
                     ELSE loop(i + 1, out, run_start)
    IN  IF index0 >= Len(bytes) \/ At(bytes, index0) # B_QUOTE
        THEN Err([e |-> "InvalidJsonFile"], index0)
        ELSE LET r == loop(index0 + 1, <<>>, index0 + 1)
             IN  IF ~r.ok THEN r
                 ELSE IF ~ensure_delimiter_or_eof(bytes, r.cursor)
                 THEN Err([e |-> "InvalidJsonFile"], r.cursor)
                 ELSE IF ~from_utf8_ok(r.v) THEN Err([e |-> "InvalidJsonFile"], r.cursor)
                 ELSE Ok(JsonString(r.v), r.cursor)

\* The naive parser's parse_json_value, with parse_array and
\* parse_json_object.  array_loop and object_loop are their while loops; fl
\* holds expecting_colum, expecting_string, expecting_value, expecting_coma.
RECURSIVE naive_parse_json_value(_, _)
naive_parse_json_value(bytes, index0) ==
    LET RECURSIVE array_loop(_, _, _)
        array_loop(i0, out_array, expect_value) ==
            LET i == trim_spaces(bytes, i0)
            IN  IF i0 >= Len(bytes) \/ i >= Len(bytes) THEN Err([e |-> "InvalidArray"], i)
                ELSE LET b == At(bytes, i)
                     IN  IF b = B_RBRACKET
                         THEN IF expect_value THEN Err([e |-> "InvalidArray"], i)
                              ELSE Ok(JArray(out_array), i + 1)
                         ELSE IF b = B_COMMA
                         THEN IF expect_value THEN Err([e |-> "InvalidArray"], i)
                              ELSE array_loop(i + 1, out_array, TRUE)
                         ELSE IF ~expect_value THEN Err([e |-> "InvalidArray"], i)
                         ELSE LET r == naive_parse_json_value(bytes, i)
                              IN  IF ~r.ok THEN r
                                  ELSE array_loop(r.cursor, Append(out_array, r.v), FALSE)
        parse_array(at_bracket) ==
            LET i == at_bracket + 1
                j == trim_spaces(bytes, i)
            IN  IF i >= Len(bytes) THEN Err([e |-> "InvalidJsonFile"], i)
                ELSE IF j < Len(bytes) /\ At(bytes, j) = B_RBRACKET
                THEN Ok(JArray(<<>>), j + 1)
                ELSE array_loop(j, <<>>, TRUE)
        RECURSIVE object_loop(_, _, _, _)
        object_loop(i0, out, key, fl) ==
            LET i == trim_spaces(bytes, i0)
            IN  IF i0 >= Len(bytes) \/ i >= Len(bytes)
                THEN Err([e |-> "InvalidJsonObject"], i)
                ELSE LET b == At(bytes, i)
                     IN  IF b = B_RBRACE
                         THEN IF ~fl.coma THEN Err([e |-> "InvalidJsonObject"], i)
                              ELSE Ok(JObject(out), i + 1)
                         ELSE IF b = B_QUOTE /\ ~fl.string /\ ~fl.value
                         THEN Err([e |-> "InvalidJsonObject"], i)
                         ELSE IF b = B_QUOTE /\ fl.string
                         THEN LET k == parse_string(bytes, i)
                              IN  IF ~k.ok THEN k
                                  ELSE object_loop(k.cursor, out, k.v.s,
                                           [fl EXCEPT !.string = FALSE, !.colum = TRUE])
                         ELSE IF b = B_COLON
                         THEN IF ~fl.colum THEN Err([e |-> "InvalidJsonObject"], i)
                              ELSE object_loop(i + 1, out, key,
                                       [fl EXCEPT !.value = TRUE, !.colum = FALSE])
                         ELSE IF b = B_COMMA
                         THEN IF ~fl.coma THEN Err([e |-> "InvalidJsonObject"], i)
                              ELSE object_loop(i + 1, out, key,
                                       [fl EXCEPT !.string = TRUE, !.coma = FALSE])
                         ELSE IF ~fl.value THEN Err([e |-> "InvalidJsonObject"], i)
                         ELSE LET r == naive_parse_json_value(bytes, i)
                              IN  IF ~r.ok THEN r
                                  ELSE object_loop(r.cursor, IndexMapInsert(out, key, r.v), key,
                                           [fl EXCEPT !.value = FALSE, !.coma = TRUE])
        parse_json_object(at_brace) ==
            LET i == at_brace + 1
                j == trim_spaces(bytes, i)
            IN  IF i >= Len(bytes) THEN Err([e |-> "InvalidJsonObject"], i)
                ELSE IF j < Len(bytes) /\ At(bytes, j) = B_RBRACE
                THEN Ok(JObject(<<>>), j + 1)
                ELSE object_loop(j, <<>>, <<>>,
                         [colum |-> FALSE, string |-> TRUE, value |-> FALSE, coma |-> FALSE])
        index == trim_spaces(bytes, index0)
    IN  IF index >= Len(bytes) THEN Err([e |-> "InvalidJsonFile"], index)
        ELSE LET b == At(bytes, index)
             IN  IF b = B_n THEN parse_null(bytes, index)
                 ELSE IF b = B_t \/ b = B_f THEN parse_bool(bytes, index)
                 ELSE IF b = B_MINUS \/ (b >= B_0 /\ b <= B_9) THEN parse_number(bytes, index)
                 ELSE IF b = B_QUOTE THEN parse_string(bytes, index)
                 ELSE IF b = B_LBRACKET THEN parse_array(index)
                 ELSE IF b = B_LBRACE THEN parse_json_object(index)
                 ELSE Err([e |-> "InvalidJsonFile"], index)

\* What the naive process_json_string(json_string) returns
process_json_string(json_string) ==
    IF json_string = <<>> THEN RetErr([e |-> "EmptyJsonFile"])
    ELSE LET json_index == trim_spaces(json_string, 0)
             r == naive_parse_json_value(json_string, json_index)
         IN  IF json_index >= Len(json_string) THEN RetErr([e |-> "InvalidJsonFile"])
             ELSE IF ~r.ok THEN RetErr(r.e)
             ELSE RetOk(r.v)

-----------------------------------------------------------------------------
(* The JSON grammar, read bottom-up: an innermost bracket pair whose content  *)
(* is well formed is replaced by the value it denotes, until no bracket is    *)
(* left.  The parser reads the same grammar top-down.                         *)

IsOpen(it) == it.kind = "LBracket" \/ it.kind = "LBrace"
IsClose(it) == it.kind = "RBracket" \/ it.kind = "RBrace"
IsValueItem(it) == it.kind \in {"Value", "Null", "Bool", "String", "Number"}

ValueItem(v) == [kind |-> "Value", v |-> v]

ItemValue(it) ==
    CASE it.kind = "Value" -> it.v
      [] it.kind = "Null" -> JNull
      [] it.kind = "Bool" -> JBoolean(it.b)
      [] it.kind = "String" -> JsonString(it.s)
      [] it.kind = "Number" -> JNumber(it.n)

\* The indices of a set of naturals, ascending
RECURSIVE Ascending(_)
Ascending(S) ==
    IF S = {} THEN <<>>
    ELSE LET m == CHOOSE x \in S : \A y \in S : x <= y
         IN  <<m>> \o Ascending(S \ {m})

\* The entries an object with the pairs ps (in source order) denotes: each key once,
\* where it first stands, with the value of its last pair.
RefEntries(ps) ==
    LET n == Len(ps)
        firsts == Ascending({i \in 1..n : \A j \in 1..(i - 1) : ps[j].k # ps[i].k})
        LastOf(k) == CHOOSE i \in 1..n : ps[i].k = k /\ \A j \in (i + 1)..n : ps[j].k # k
    IN  [m \in 1..Len(firsts) |->
            [k |-> ps[firsts[m]].k, v |-> ps[LastOf(ps[firsts[m]].k)].v]]

\* value (',' value)*, or nothing
IsArrayContent(inner) ==
    \/ inner = <<>>
    \/ /\ Len(inner) % 2 = 1
       /\ \A i \in 1..Len(inner) :
            IF i % 2 = 1 THEN IsValueItem(inner[i]) ELSE inner[i].kind = "Comma"

ArrayContentValue(inner) ==
    JArray([m \in 1..((Len(inner) + 1) \div 2) |-> ItemValue(inner[2 * m - 1])])

\* string ':' value (',' string ':' value)*, or nothing
IsObjectContent(inner) ==
    \/ inner = <<>>
    \/ /\ Len(inner) % 4 = 3
       /\ \A i \in 1..Len(inner) :
            CASE i % 4 = 1 -> inner[i].kind = "String"
              [] i % 4 = 2 -> inner[i].kind = "Colon"
              [] i % 4 = 3 -> IsValueItem(inner[i])
              [] OTHER -> inner[i].kind = "Comma"

ObjectContentPairs(inner) ==
    [m \in 1..((Len(inner) + 1) \div 4) |->
        [k |-> inner[4 * m - 3].s, v |-> ItemValue(inner[4 * m - 1])]]

RefFail == [ok |-> FALSE]

RECURSIVE RefReduce(_)
RefReduce(items) ==
    LET closes == {j \in 1..Len(items) : IsClose(items[j])}
    IN  IF closes = {}
        THEN IF Len(items) = 2 /\ IsValueItem(items[1]) /\ items[2].kind = "Eof"
             THEN [ok |-> TRUE, v |-> ItemValue(items[1])]
             ELSE RefFail
        ELSE LET j == CHOOSE x \in closes : \A y \in closes : x <= y
                 opens == {i \in 1..(j - 1) : IsOpen(items[i])}
             IN  IF opens = {} THEN RefFail
                 ELSE LET i == CHOOSE x \in opens : \A y \in opens : y <= x
                          inner == SubSeq(items, i + 1, j - 1)
                          before == SubSeq(items, 1, i - 1)
                          after == SubSeq(items, j + 1, Len(items))
                      IN  IF items[i].kind = "LBracket" /\ items[j].kind = "RBracket"
                             /\ IsArrayContent(inner)
                          THEN RefReduce(before \o <<ValueItem(ArrayContentValue(inner))>>
                                           \o after)
                          ELSE IF items[i].kind = "LBrace" /\ items[j].kind = "RBrace"
                                  /\ IsObjectContent(inner)
                          THEN RefReduce(before
                                   \o <<ValueItem(JObject(RefEntries(ObjectContentPairs(inner))))>>
                                   \o after)
                          ELSE RefFail

\* lex_all on the input of this call
Lexed == lex_all(input)

\* The token sequence of the input is one grammar value and the sentinel.
RefParse == IF Lexed.ok THEN RefReduce(Lexed.v) ELSE RefFail

Done == pc = "done"

-----------------------------------------------------------------------------
(* C1: process_json_string_v2 returns Ok(v) exactly when lex_all succeeds and  *)
(* the tokens are one value of the JSON grammar followed by Eof and nothing    *)
(* else; v is then the tree of that derivation; in every other case it returns *)
(* an Err.                                                                     *)
C1_OkIffGrammar ==
    Done =>
        /\ result.tag \in {"Ok", "Err"}
        /\ (result.tag = "Ok") <=> RefParse.ok
        /\ result.tag = "Ok" => result.v = RefParse.v

\* [1,[2,[3]]] has been parsed to its three nested arrays
C1_Witness ==
    /\ Done
    /\ input = Nest(3)
    /\ result.tag = "Ok"
    /\ result.v.t = "Array"
    /\ Len(result.v.elems) = 2
    /\ result.v.elems[2].elems[2].elems[1].t = "Number"

-----------------------------------------------------------------------------
(* C2: when the input lexes and a complete value is followed by a further      *)
(* token that is not Eof, process_json_string_v2 returns ExpectedEOF with the  *)
(* tag and the start offset of the first extra token, never Ok and never       *)
(* another error.                                                              *)

EofItem == Token("Eof", Span(0, 0))

\* The k for which the first k tokens are one complete value and token k + 1 is
\* not the sentinel (there is at most one), as a set.
TrailingAfter(toks) ==
    {k \in 1..(Len(toks) - 1) :
        toks[k + 1].kind # "Eof" /\ RefReduce(SubSeq(toks, 1, k) \o <<EofItem>>).ok}

-----------------------------------------------------------------------------
(* C3: end of input inside an array that is not yet closed (right after '[',   *)
(* after an element, or after a comma) makes process_json_string_v2 fail with  *)
(* UnexpectedEOF; [1,[2,[3]]] parses to three nested arrays and without any    *)
(* one of its closing brackets fails with UnexpectedEOF.                       *)

\* The brackets left open by the tokens toks, outermost first; <<"bad">> in front
\* when a closing bracket has no partner.
RECURSIVE OpenBrackets(_, _)
OpenBrackets(toks, open) ==
    IF toks = <<>> THEN open
    ELSE LET t == Head(toks)
             n == Len(open)
         IN  IF IsOpen(t) THEN OpenBrackets(Tail(toks), Append(open, t.kind))
             ELSE IF IsClose(t)
             THEN IF n > 0 /\ ((open[n] = "LBracket") <=> (t.kind = "RBracket"))
                          /\ open[1] # "bad"
                  THEN OpenBrackets(Tail(toks), SubSeq(open, 1, n - 1))
                  ELSE <<"bad">>
             ELSE OpenBrackets(Tail(toks), open)

\* The closing brackets that close open, innermost first
Closers(open) ==
    [i \in 1..Len(open) |->
        Token(IF open[Len(open) + 1 - i] = "LBracket" THEN "RBracket" ELSE "RBrace",
              Span(0, 0))]

OneItem == NumberToken(F64Zero(FALSE), Span(0, 0))

\* The tokens before the sentinel break off inside an array: its bracket is the
\* innermost one open, and closing what is open, after one more element if one is
\* due, gives a value of the grammar.
EndsInsideArray(toks) ==
    LET body == SubSeq(toks, 1, Len(toks) - 1)
        open == OpenBrackets(body, <<>>)
    IN  /\ open # <<>>
        /\ open[Len(open)] = "LBracket"
        /\ \/ RefReduce(body \o Closers(open) \o <<EofItem>>).ok
           \/ RefReduce(body \o <<OneItem>> \o Closers(open) \o <<EofItem>>).ok

C3_EofInsideArray ==
    Done =>
        /\ Lexed.ok /\ EndsInsideArray(Lexed.v) =>
              result.tag = "Err" /\ result.e.e = "UnexpectedEOF"
        /\ input = Nest(3) =>
              /\ result.tag = "Ok"
              /\ result.v.elems[2].elems[2].t = "Array"

-----------------------------------------------------------------------------
(* C4: process_json_string_v2 returns EmptyJsonFile exactly for the input of  *)
(* length zero, before any lexing; an input of whitespace only fails with     *)
(* UnexpectedEOF, and every other input gives a value or another error.       *)
C4_EmptyInput ==
    Done =>
        /\ (result = RetErr(EmptyJsonFile)) <=> (Len(input) = 0)
        /\ Len(input) = 0 => lexcur = 0 /\ tokens = <<>> /\ popped = <<>>
        /\ Len(input) > 0 /\ (\A i \in 1..Len(input) : input[i] = B_SPACE) =>
              result = RetErr(UnexpectedEOF(Some(Len(input))))

\* The empty input has been rejected
C4_Witness == Done /\ input = <<>> /\ result = RetErr(EmptyJsonFile)

-----------------------------------------------------------------------------
(* C5: when lex_all fails on a non-empty input with the lexer error e,         *)
(* process_json_string_v2 returns LexError(e) with e as the lexer gave it, and *)
(* the parser has not taken a single token, even when the tokens before the    *)
(* error already break the grammar: '] ;' gives the unexpected-byte error for  *)
(* ';', not an unexpected-token error for ']'.                                 *)
C5_LexErrorFirst ==
    Done =>
        /\ Len(input) > 0 /\ ~Lexed.ok =>
              /\ result = RetErr(LexError(Lexed.e))
              /\ popped = <<>> /\ tokens = <<>> /\ cursor = 0
              /\ json_value = NoValue
        /\ input = <<B_RBRACKET, B_SPACE, B_COLON + 1>> =>
              result = RetErr(LexError(UnexpectedByte(2, B_COLON + 1, "token")))

\* '] ;' has been rejected for its ';'
C5_Witness ==
    /\ Done
    /\ input = <<B_RBRACKET, B_SPACE, B_COLON + 1>>
    /\ ~Lexed.ok
    /\ result.tag = "Err" /\ result.e.e = "LexError"
    /\ result.e.lex.e = "UnexpectedByte" /\ result.e.lex.at = 2

-----------------------------------------------------------------------------
(* C6: every successfully parsed object whose keys are pairwise distinct      *)
(* iterates its keys in the order in which they stand in the source text;     *)
(* '{"b":1,"a":2}' iterates as b, a.                                          *)

\* The token indices of the keys of the object whose '{' is token o: the strings
\* followed by ':' that stand directly inside it.
KeyIdxs(toks, o) ==
    Ascending({i \in (o + 1)..(Len(toks) - 1) :
        /\ toks[i].kind = "String"
        /\ toks[i + 1].kind = "Colon"
        /\ Len(OpenBrackets(SubSeq(toks, o, i - 1), <<>>)) = 1
        /\ \A j \in o..(i - 1) : OpenBrackets(SubSeq(toks, o, j), <<>>) # <<>>})

SourceKeys(toks, o) == [m \in 1..Len(KeyIdxs(toks, o)) |-> toks[KeyIdxs(toks, o)[m]].s]

Distinct(ks) == \A i, j \in 1..Len(ks) : i # j => ks[i] # ks[j]

EntryKeys(obj) == [m \in 1..Len(obj.entries) |-> obj.entries[m].k]

\* The object value obj, read from the '{' at token o, keeps the source order.
KeepsSourceOrder(obj, toks, o) ==
    Distinct(SourceKeys(toks, o)) => EntryKeys(obj) = SourceKeys(toks, o)

C6_KeyOrder ==
    Done /\ result.tag = "Ok" /\ result.v.t = "Object" =>
        /\ KeepsSourceOrder(result.v, Lexed.v, 1)
        /\ Distinct(SourceKeys(Lexed.v, 1)) =>
              \A m \in 1..Len(result.v.entries) :
                  result.v.entries[m].v.t = "Object" =>
                      KeepsSourceOrder(result.v.entries[m].v, Lexed.v,
                                       KeyIdxs(Lexed.v, 1)[m] + 2)

\* {"b":1,"a":2} has been parsed, b before a
C6_Witness ==
    /\ Done
    /\ input = <<B_LBRACE>> \o PairText(<<B_b>>, <<B_0 + 1>>) \o <<B_COMMA>>
                   \o PairText(<<B_a>>, <<B_0 + 2>>) \o <<B_RBRACE>>
    /\ result.tag = "Ok"
    /\ EntryKeys(result.v) = <<<<B_b>>, <<B_a>>>>

-----------------------------------------------------------------------------
(* C7: when an object literal repeats a key, the resulting Object holds that   *)
(* key once, with the value of its last occurrence, at the position of its     *)
(* first occurrence, and the other keys keep their positions and values;       *)
(* '{"a":1,"b":2,"a":3}' yields the keys a, b with a = 3.                      *)

\* The object at token 1 has plain values only
IsFlatObject(toks) ==
    /\ toks[1].kind = "LBrace"
    /\ \A m \in 1..Len(KeyIdxs(toks, 1)) :
          toks[KeyIdxs(toks, 1)[m] + 2].kind \in {"Null", "Bool", "String", "Number"}

C7_DuplicateKey ==
    Done /\ result.tag = "Ok" /\ result.v.t = "Object" /\ IsFlatObject(Lexed.v) =>
        LET toks == Lexed.v
            ks == SourceKeys(toks, 1)
            n == Len(ks)
            entries == result.v.entries
            FirstOf(k) == CHOOSE i \in 1..n : ks[i] = k /\ \A j \in 1..(i - 1) : ks[j] # k
            LastOf(k) == CHOOSE i \in 1..n : ks[i] = k /\ \A j \in (i + 1)..n : ks[j] # k
            \* how many keys stand first at or before source position i
            Rank(i) == Cardinality({j \in 1..i : FirstOf(ks[j]) = j})
        IN  /\ Len(entries) = Cardinality({ks[i] : i \in 1..n})
            /\ \A i \in 1..n :
                  /\ Cardinality({m \in 1..Len(entries) : entries[m].k = ks[i]}) = 1
                  /\ entries[Rank(FirstOf(ks[i]))] =
                        [k |-> ks[i],
                         v |-> ItemValue(toks[KeyIdxs(toks, 1)[LastOf(ks[i])] + 2])]

\* {"a":1,"b":2,"a":3} has been parsed to a = 3, b = 2
C7_Witness ==
    /\ Done
    /\ input = <<B_LBRACE>> \o PairText(<<B_a>>, <<B_0 + 1>>) \o <<B_COMMA>>
                   \o PairText(<<B_b>>, <<B_0 + 2>>) \o <<B_COMMA>>
                   \o PairText(<<B_a>>, <<B_0 + 3>>) \o <<B_RBRACE>>
    /\ result.tag = "Ok"
    /\ EntryKeys(result.v) = <<<<B_a>>, <<B_b>>>>
    /\ result.v.entries[1].v = ItemValue(Lexed.v[12])
    /\ result.v.entries[1].v # ItemValue(Lexed.v[4])
    /\ result.v.entries[2].v = ItemValue(Lexed.v[8])

-----------------------------------------------------------------------------
(* C8: a number whose integer part begins with '0' directly followed by a      *)
(* digit, after an optional '-', fails with InvalidNumber, reason LeadingZero, *)
(* at the offset of that '0' (0 for '01', 1 for '-01') and with no other       *)
(* error; a '0' followed by '.', 'e', 'E', a delimiter or the end of the input *)
(* is not a leading-zero error.                                                *)

\* Where the token that next_token reads from offset cur begins
TokenStart(bytes, cur) ==
    CHOOSE i \in cur..Len(bytes) :
        /\ i = Len(bytes) \/ bytes[i + 1] \notin {32, 9, 10, 13}
        /\ \A j \in cur..(i - 1) : bytes[j + 1] \in {32, 9, 10, 13}

IsLeadingZeroError(r) ==
    r.tag = "Err" /\ r.e.e = "InvalidNumber" /\ r.e.reason = "LeadingZero"

C8_LeadingZero ==
    [][ pc = "lex" =>
          LET s == TokenStart(input, lexcur)
              z == IF s < Len(input) /\ input[s + 1] = 45 THEN s + 1 ELSE s
              zero_digit == /\ z + 1 < Len(input)
                            /\ input[z + 1] = 48
                            /\ input[z + 2] \in 48..57
          IN  /\ s < Len(input) /\ input[s + 1] \in {45} \cup 48..57 /\ zero_digit =>
                    result' = RetErr(InvalidNumber(z, "LeadingZero"))
              /\ ~(s < Len(input) /\ input[s + 1] \in {45} \cup 48..57 /\ zero_digit) =>
                    ~IsLeadingZeroError(result')
      ]_vars

\* '-01' has been rejected at offset 1
C8_Witness ==
    /\ Done
    /\ input = <<B_MINUS, B_0, B_0 + 1>>
    /\ result = RetErr(InvalidNumber(1, "LeadingZero"))

-----------------------------------------------------------------------------
(* C9: the text of every successfully lexed string literal is the reference   *)
(* decoding of the bytes between its quotes: each raw byte as it is and each  *)
(* two-byte escape \" \\ \/ \b \f \n \r \t as the one byte 0x22 0x5C 0x2F     *)
(* 0x08 0x0C 0x0A 0x0D 0x09, in source order, no byte lost or doubled where   *)
(* one run ends and the next begins.                                          *)

RefEscape(c) ==
    CASE c = 34 -> 34
      [] c = 92 -> 92
      [] c = 47 -> 47
      [] c = 98 -> 8
      [] c = 102 -> 12
      [] c = 110 -> 10
      [] c = 114 -> 13
      [] c = 116 -> 9
      [] OTHER -> -1

\* The bytes between the quotes of the token t
BodyOf(t) == SubSeq(input, t.span.start + 2, t.span.end - 1)

\* Raw bytes and two-byte escapes only
RECURSIVE IsPlainBody(_)
IsPlainBody(body) ==
    IF body = <<>> THEN TRUE
    ELSE IF Head(body) = 92
    THEN Len(body) >= 2 /\ RefEscape(body[2]) >= 0
         /\ IsPlainBody(SubSeq(body, 3, Len(body)))
    ELSE IsPlainBody(Tail(body))

RECURSIVE RefDecode(_)
RefDecode(body) ==
    IF body = <<>> THEN <<>>
    ELSE IF Head(body) = 92
    THEN <<RefEscape(body[2])>> \o RefDecode(SubSeq(body, 3, Len(body)))
    ELSE <<Head(body)>> \o RefDecode(Tail(body))

C9_StringDecoding ==
    \A i \in 1..Len(tokens) :
        tokens[i].kind = "String" =>
            /\ input[tokens[i].span.start + 1] = 34
            /\ input[tokens[i].span.end] = 34
            /\ IsPlainBody(BodyOf(tokens[i])) =>
                  tokens[i].s = RefDecode(BodyOf(tokens[i]))

\* "b\nb" has been lexed to b, line feed, b
C9_Witness ==
    /\ input = <<B_QUOTE, B_b, B_BACKSLASH, B_n, B_b, B_QUOTE>>
    /\ Len(tokens) >= 1
    /\ tokens[1].kind = "String"
    /\ IsPlainBody(BodyOf(tokens[1]))
    /\ tokens[1].s = <<98, 10, 98>>

-----------------------------------------------------------------------------
(* C10: inside a string, '\u' and four hex digits of either case whose value  *)
(* c = d0*4096 + d1*256 + d2*16 + d3 lies outside 0xD800..0xDFFF take exactly *)
(* those six bytes and add exactly the code point c to the text;              *)
(* the literal "\u0041\u0042" decodes to AB.                                *)

RefHex(b) ==
    CASE b \in 48..57 -> b - 48
      [] b \in 97..102 -> b - 87
      [] b \in 65..70 -> b - 55
      [] OTHER -> -1

\* The code points a string body denotes, read left to right: [ok, cps, uni],
\* uni telling whether a \u escape was met; not ok when the body is no string
\* body (a bare quote or control byte, a bad escape, a surrogate).
RECURSIVE RefWalk(_, _, _)
RefWalk(body, cps, uni) ==
    IF body = <<>> THEN [ok |-> TRUE, cps |-> cps, uni |-> uni]
    ELSE IF Head(body) = 92
    THEN IF Len(body) >= 2 /\ RefEscape(body[2]) >= 0
         THEN RefWalk(SubSeq(body, 3, Len(body)), Append(cps, RefEscape(body[2])), uni)
         ELSE IF Len(body) >= 6 /\ body[2] = 117
                 /\ \A k \in 3..6 : RefHex(body[k]) >= 0
         THEN LET c == RefHex(body[3]) * 4096 + RefHex(body[4]) * 256
                          + RefHex(body[5]) * 16 + RefHex(body[6])
              IN  IF c \in 55296..57343 THEN [ok |-> FALSE]
                  ELSE RefWalk(SubSeq(body, 7, Len(body)), Append(cps, c), TRUE)
         ELSE [ok |-> FALSE]
    ELSE IF Head(body) = 34 \/ Head(body) < 32 \/ Head(body) > 127 THEN [ok |-> FALSE]
    ELSE RefWalk(Tail(body), Append(cps, Head(body)), uni)

\* The code points of a UTF-8 text of one-, two- and three-byte sequences
RECURSIVE Utf8Decode(_)
Utf8Decode(bs) ==
    IF bs = <<>> THEN <<>>
    ELSE IF bs[1] < 128 THEN <<bs[1]>> \o Utf8Decode(Tail(bs))
    ELSE IF bs[1] \in 192..223 /\ Len(bs) >= 2
    THEN <<(bs[1] - 192) * 64 + (bs[2] - 128)>> \o Utf8Decode(SubSeq(bs, 3, Len(bs)))
    ELSE IF bs[1] \in 224..239 /\ Len(bs) >= 3
    THEN <<(bs[1] - 224) * 4096 + (bs[2] - 128) * 64 + (bs[3] - 128)>>
             \o Utf8Decode(SubSeq(bs, 4, Len(bs)))
    ELSE <<-1>>

\* The input is one quoted literal with the body of a string that holds a \u escape
IsUnicodeLiteral ==
    /\ Len(input) >= 2
    /\ input[1] = 34
    /\ input[Len(input)] = 34
    /\ RefWalk(SubSeq(input, 2, Len(input) - 1), <<>>, FALSE).ok
    /\ RefWalk(SubSeq(input, 2, Len(input) - 1), <<>>, FALSE).uni

C10_UnicodeEscape ==
    /\ \A i \in 1..Len(tokens) :
          tokens[i].kind = "String" /\ RefWalk(BodyOf(tokens[i]), <<>>, FALSE).ok =>
              Utf8Decode(tokens[i].s) = RefWalk(BodyOf(tokens[i]), <<>>, FALSE).cps
    /\ Done /\ IsUnicodeLiteral =>
          /\ result.tag = "Ok"
          /\ Len(result.v) = 2
          /\ result.v[1].kind = "String"
          /\ result.v[1].span = Span(0, Len(input))
          /\ Utf8Decode(result.v[1].s) =
                RefWalk(SubSeq(input, 2, Len(input) - 1), <<>>, FALSE).cps

\* "\u0041\u0042" has been lexed to AB
C10_Witness ==
    /\ Done
    /\ input = <<B_QUOTE>> \o UniEscape(<<B_0, B_0, B_0 + 4, B_0 + 1>>)
                   \o UniEscape(<<B_0, B_0, B_0 + 4, B_0 + 2>>) \o <<B_QUOTE>>
    /\ IsUnicodeLiteral
    /\ result.tag = "Ok"
    /\ result.v[1].s = <<65, 66>>

-----------------------------------------------------------------------------
(* C11: every \uXXXX escape whose four hex digits give a value in              *)
(* 0xD800..0xDFFF makes lexing fail with InvalidString, reason                 *)
(* SurrogateNotAllowed, whether it stands alone or is the first or the second  *)
(* half of a high/low pair; no String token ever holds a surrogate code point. *)

\* The string body that begins body is well formed up to a \u escape whose value
\* is a surrogate.
RECURSIVE SurrogateFirst(_)
SurrogateFirst(body) ==
    IF body = <<>> THEN FALSE
    ELSE IF Head(body) = 92
    THEN IF Len(body) >= 2 /\ RefEscape(body[2]) >= 0
         THEN SurrogateFirst(SubSeq(body, 3, Len(body)))
         ELSE IF Len(body) >= 6 /\ body[2] = 117 /\ \A k \in 3..6 : RefHex(body[k]) >= 0
         THEN \/ RefHex(body[3]) = 13 /\ RefHex(body[4]) >= 8
              \/ /\ ~(RefHex(body[3]) = 13 /\ RefHex(body[4]) >= 8)
                 /\ SurrogateFirst(SubSeq(body, 7, Len(body)))
         ELSE FALSE
    ELSE IF Head(body) = 34 \/ Head(body) < 32 THEN FALSE
    ELSE SurrogateFirst(Tail(body))

C11_SurrogateRejected ==
    /\ Done /\ Len(input) >= 1 /\ input[1] = 34 /\ SurrogateFirst(Tail(input)) =>
          /\ result.tag = "Err"
          /\ result.e.e = "InvalidString"
          /\ result.e.reason = [r |-> "SurrogateNotAllowed"]
    /\ \A i \in 1..Len(tokens) :
          tokens[i].kind = "String" =>
              \A j \in 1..Len(Utf8Decode(tokens[i].s)) :
                  Utf8Decode(tokens[i].s)[j] \notin 55296..57343

\* "\uD800\uDF00", a well-formed pair, has been rejected for its first half
C11_Witness ==
    /\ Done
    /\ input = <<B_QUOTE>> \o UniEscape(<<B_UA + 3, B_0 + 8, B_0, B_0>>)
                   \o UniEscape(<<B_UA + 3, B_UF, B_0, B_0>>) \o <<B_QUOTE>>
    /\ SurrogateFirst(Tail(input))
    /\ result = RetErr(InvalidString(7, SurrogateNotAllowed))

-----------------------------------------------------------------------------
(* C12: every successful lex_all result holds exactly one Eof token, which is  *)
(* its last element and has the empty span [n, n], n the length of the input;  *)
(* no token follows it, and a failed lex_all returns no tokens.                *)
EofCount(toks) == Cardinality({i \in 1..Len(toks) : toks[i].kind = "Eof"})

C12_OneEofLast ==
    /\ pc = "lex" => EofCount(tokens) = 0 /\ result = NoResult
    /\ Done /\ result.tag = "Ok" =>
          /\ result.v = tokens
          /\ EofCount(tokens) = 1
          /\ tokens[Len(tokens)] = [kind |-> "Eof", span |-> [start |-> Len(input), end |-> Len(input)]]
    /\ Done /\ result.tag = "Err" => tokens = <<>>
    /\ Done => result = (IF lex_all(input).ok THEN RetOk(lex_all(input).v)
                                              ELSE RetErr(lex_all(input).e))

\* 'true ' has been lexed to a Bool and the sentinel at offset 5
C12_Witness ==
    /\ Done
    /\ input = TRUE_BYTES \o <<B_SPACE>>
    /\ result.tag = "Ok"
    /\ Len(result.v) = 2
    /\ result.v[2].kind = "Eof"
    /\ result.v[2].span.start = 5

-----------------------------------------------------------------------------
(* C13: the first error of lexing or parsing ends the call: once a step has    *)
(* produced an error no token is popped or peeked any more, the error reaches  *)
(* the caller as it was raised, through every enclosing array and object, and  *)
(* no partly built value comes with it.                                        *)

\* The handler that runs in parser state st
HandlerOf(st) ==
    CASE st.pc = "start" -> process_json_string_v2_begin(st, input)
      [] st.pc = "value" -> parse_json_value(st)
      [] st.pc = "arr_first" -> parse_json_array_first(st)
      [] st.pc = "arr_loop" -> parse_json_array_loop(st)
      [] st.pc = "obj_first" -> parse_json_object_first(st)
      [] st.pc = "obj_key" -> parse_object_key(st)
      [] st.pc = "obj_colon" -> consume_kind(st, "Colon")
      [] st.pc = "obj_loop" -> parse_json_object_loop(st)
      [] st.pc = "eof_check" -> expect_eof(st)
      [] st.pc = "done" -> st

\* The state with every call but the innermost taken away
Innermost(st) ==
    [st EXCEPT !.stack = IF st.stack = <<>> THEN <<>> ELSE <<st.stack[Len(st.stack)]>>]

C13_FirstErrorEnds ==
    [][ /\ result.tag # "Err"
        /\ result'.tag = "Err" =>
              /\ pc' = "done"
              /\ stack' = <<>>
              /\ DOMAIN result' = {"tag", "e"}
              /\ result' = HandlerOf(Innermost(StateRec)).result
              /\ pc # "start" =>
                    /\ popped' \o tokens' = popped \o tokens
                    /\ Len(popped') <= Len(popped) + 1
              /\ pc = "start" => popped' = <<>> /\ tokens' = <<>>
      ]_vars

\* [1,[,[3]]] has been rejected at the ',' two arrays deep, six tokens unread
C13_Witness ==
    /\ Done
    /\ input = DeleteAt(Nest(3), 4)
    /\ result = RetErr(UnexpectedToken("Comma", Some(4)))
    /\ Len(popped) = 5
    /\ Len(tokens) = 6
    /\ stack = <<>>

-----------------------------------------------------------------------------
(* C14: the parser's transition function is total: in each parser state (value *)
(* expected, first element or close, comma or close, key expected, colon       *)
(* expected, end of input expected) each of the eleven token tags leads to a   *)
(* defined successor state or to a typed JsonParsingErrorV2; no pair of state  *)
(* and tag is left unhandled.                                                  *)

TokenTags ==
    {"LBrace", "RBrace", "LBracket", "RBracket", "Colon", "Comma",
     "Bool", "Null", "String", "Number", "Eof"}

\* A token of the tag k at offset at
TagToken(k, at) ==
    CASE k = "Bool" -> BoolToken(TRUE, Span(at, at + 1))
      [] k = "String" -> StringToken(<<>>, Span(at, at + 1))
      [] k = "Number" -> NumberToken(F64Zero(FALSE), Span(at, at + 1))
      [] k = "Eof" -> Token("Eof", Span(at, at))
      [] OTHER -> Token(k, Span(at, at + 1))

\* What the state p does with a token of the tag k: the state it goes to,
\* "value returned" when a value or a container is complete, or the error.
Transition(p, k) ==
    CASE p = "value" ->
            (CASE k \in {"Null", "Bool", "String", "Number"} -> "value returned"
               [] k = "LBrace" -> "obj_first"
               [] k = "LBracket" -> "arr_first"
               [] k = "Eof" -> "UnexpectedEOF"
               [] OTHER -> "UnexpectedToken")
      [] p = "arr_first" -> IF k = "RBracket" THEN "value returned" ELSE "value"
      [] p = "arr_loop" ->
            (CASE k = "Comma" -> "value"
               [] k = "RBracket" -> "value returned"
               [] OTHER -> "InvalidArray")
      [] p = "obj_first" -> IF k = "RBrace" THEN "value returned" ELSE "obj_key"
      [] p = "obj_key" ->
            (CASE k = "String" -> "obj_colon"
               [] k = "Eof" -> "UnexpectedEOF"
               [] OTHER -> "InvalidJsonObject")
      [] p = "obj_colon" -> IF k = "Colon" THEN "value" ELSE "InvalidJsonObject"
      [] p = "obj_loop" ->
            (CASE k = "Comma" -> "obj_key"
               [] k = "RBrace" -> "value returned"
               [] OTHER -> "InvalidJsonObject")
      [] p = "eof_check" -> IF k = "Eof" THEN "done" ELSE "ExpectedEOF"

ErrorKinds ==
    {"EmptyJsonFile", "UnexpectedEOF", "ExpectedEOF", "UnexpectedToken",
     "InvalidArray", "InvalidJsonObject", "LexError"}

\* The state s1 is what Transition promises with the outcome o
Follows(s1, o) ==
    IF o \in ErrorKinds
    THEN s1.pc = "done" /\ s1.result.tag = "Err" /\ s1.result.e.e = o
    ELSE IF o = "done"
    THEN s1.pc = "done" /\ s1.result.tag = "Ok"
    ELSE /\ s1.result = NoResult
         /\ IF o = "value returned"
            THEN s1.pc \in {"eof_check", "arr_loop", "obj_loop"}
            ELSE s1.pc = o

C14_TotalTransitions ==
    pc \in {"value", "arr_first", "arr_loop", "obj_first", "obj_key", "obj_colon",
            "obj_loop", "eof_check"} =>
        \A k \in TokenTags :
            Follows(HandlerOf([StateRec EXCEPT
                                  !.tokens = <<TagToken(k, cursor), TagToken("Eof", cursor + 1)>>]),
                    Transition(pc, k))

\* {"a":1, has been read and a key is awaited
C14_Witness ==
    /\ pc = "obj_key"
    /\ Len(popped) = 5
    /\ popped[5].kind = "Comma"
    /\ stack # <<>>
    /\ stack[Len(stack)].out # <<>>
    /\ tokens # <<>>
    /\ Head(tokens).kind = "String"

-----------------------------------------------------------------------------
\* The JSON number grammar: an optional '-', an integer part that is 0 or
\* starts with 1-9, an optional '.' with digits, an optional e or E with an
\* optional sign and digits; and the size of the number a lexeme denotes

IsDigits(r) == r # <<>> /\ \A i \in 1..Len(r) : r[i] \in 48..57
IsIntPart(r) == IsDigits(r) /\ (Len(r) = 1 \/ r[1] # 48)
IsFracPart(r) == r = <<>> \/ (r[1] = 46 /\ IsDigits(Tail(r)))
IsExpPart(r) ==
    \/ r = <<>>
    \/ /\ r[1] \in {101, 69}
       /\ \/ IsDigits(Tail(r))
          \/ Len(r) >= 2 /\ r[2] \in {43, 45} /\ IsDigits(SubSeq(r, 3, Len(r)))

\* r without its leading '-'
Unsigned(r) == IF r # <<>> /\ r[1] = 45 THEN Tail(r) ELSE r

\* The <<i, j>> at which the unsigned lexeme u splits into integer part,
\* fraction and exponent
NumberSplits(u) ==
    {ij \in (0..Len(u)) \X (0..Len(u)) :
        /\ ij[1] <= ij[2]
        /\ IsIntPart(SubSeq(u, 1, ij[1]))
        /\ IsFracPart(SubSeq(u, ij[1] + 1, ij[2]))
        /\ IsExpPart(SubSeq(u, ij[2] + 1, Len(u)))}

MatchesNumber(r) == NumberSplits(Unsigned(r)) # {}

\* The number the decimal digits r spell
RECURSIVE RefNat(_)
RefNat(r) == IF r = <<>> THEN 0 ELSE 10 * RefNat(SubSeq(r, 1, Len(r) - 1)) + (r[Len(r)] - 48)

\* r is above s, digit by digit, a missing digit counting as '0'
RECURSIVE DigitsAbove(_, _)
DigitsAbove(r, s) ==
    IF r = <<>> /\ s = <<>> THEN FALSE
    ELSE LET a == IF r = <<>> THEN 48 ELSE Head(r)
             b == IF s = <<>> THEN 48 ELSE Head(s)
         IN  IF a # b THEN a > b
             ELSE DigitsAbove(IF r = <<>> THEN r ELSE Tail(r), IF s = <<>> THEN s ELSE Tail(s))

\* The number of '0' that begin r
RECURSIVE LeadingZeros(_)
LeadingZeros(r) == IF r # <<>> /\ Head(r) = 48 THEN 1 + LeadingZeros(Tail(r)) ELSE 0

\* The lexeme r of the grammar denotes a number too large for an f64: written
\* d.ddd * 10^sci it has sci > 308, or sci = 308 and digits above those of the
\* largest f64, 1.7976931348623157e308.
RefOverflows(r) ==
    LET u == Unsigned(r)
        ij == CHOOSE x \in NumberSplits(u) : TRUE
        ints == SubSeq(u, 1, ij[1])
        fracs == SubSeq(u, ij[1] + 2, ij[2])
        ex == SubSeq(u, ij[2] + 2, Len(u))
        expo == IF ex = <<>> THEN 0
                ELSE IF ex[1] = 45 THEN 0 - RefNat(Tail(ex))
                ELSE IF ex[1] = 43 THEN RefNat(Tail(ex))
                ELSE RefNat(ex)
        ds == ints \o fracs
        z == LeadingZeros(ds)
        sci == expo + Len(ints) - 1 - z
    IN  /\ z < Len(ds)
        /\ \/ sci > 308
           \/ sci = 308 /\ DigitsAbove(SubSeq(ds, z + 1, Len(ds)),
                                       <<49, 55, 57, 55, 54, 57, 51, 49, 51, 52, 56, 54, 50, 51, 49, 53, 55>>)

\* The longest run of the bytes 0-9 . e E + - in bytes from offset s on
RECURSIVE NumberRun(_, _)
NumberRun(bytes, s) ==
    IF s < Len(bytes) /\ bytes[s + 1] \in (48..57) \cup {46, 101, 69, 43, 45}
    THEN <<bytes[s + 1]>> \o NumberRun(bytes, s + 1)
    ELSE <<>>

\* A number begins at the token that starts at offset s
NumberStartsAt(bytes, s) == s < Len(bytes) /\ bytes[s + 1] \in {45} \cup 48..57

-----------------------------------------------------------------------------
(* C15: no Number token holds an infinite or NaN value: a lexeme of the number *)
(* grammar whose conversion to a 64-bit float is not finite, such as 1e999,    *)
(* fails with InvalidNumber, reason NonFinite, at the offset where the lexeme  *)
(* starts.                                                                     *)
C15_NonFinite ==
    [][ /\ \A i \in 1..Len(tokens') :
              tokens'[i].kind = "Number" => tokens'[i].n.kind = "finite"
        /\ pc = "lex" =>
              LET s == TokenStart(input, lexcur)
                  run == NumberRun(input, s)
                  overflows == /\ NumberStartsAt(input, s)
                               /\ MatchesNumber(run)
                               /\ RefOverflows(run)
              IN  /\ overflows => result' = RetErr(InvalidNumber(s, "NonFinite"))
                  /\ ~overflows =>
                        ~(result'.tag = "Err" /\ result'.e.e = "InvalidNumber"
                              /\ result'.e.reason = "NonFinite")
      ]_vars

\* ', 1e309' has been rejected at offset 2
C15_Witness ==
    /\ Done
    /\ input = <<B_COMMA, B_SPACE, B_0 + 1, B_e>> \o Digits(<<3, 0, 9>>)
    /\ RefOverflows(NumberRun(input, 2))
    /\ result = RetErr(InvalidNumber(2, "NonFinite"))

-----------------------------------------------------------------------------
\* The keyword a token that starts with the byte b is expected to spell
KeywordBytes(b) ==
    IF b = 116 THEN <<116, 114, 117, 101>>
    ELSE IF b = 102 THEN <<102, 97, 108, 115, 101>>
    ELSE <<110, 117, 108, 108>>

KeywordName(b) == IF b = 116 THEN "true" ELSE IF b = 102 THEN "false" ELSE "null"

\* A keyword begins at the token that starts at offset s
KeywordStartsAt(bytes, s) == s < Len(bytes) /\ bytes[s + 1] \in {116, 102, 110}

\* Some byte of bytes within the extent of the keyword begun at s differs from it
KeywordMismatch(bytes, s) ==
    LET kw == KeywordBytes(bytes[s + 1])
    IN  \E i \in 1..Len(kw) : s + i <= Len(bytes) /\ bytes[s + i] # kw[i]

\* The bytes from s to the end of input are a proper prefix of the keyword
KeywordCutShort(bytes, s) ==
    LET kw == KeywordBytes(bytes[s + 1])
    IN  /\ Len(bytes) - s < Len(kw)
        /\ \A i \in 1..(Len(bytes) - s) : bytes[s + i] = kw[i]

\* The keyword begun at s is spelled in full
KeywordComplete(bytes, s) ==
    LET kw == KeywordBytes(bytes[s + 1])
    IN  /\ s + Len(kw) <= Len(bytes)
        /\ \A i \in 1..Len(kw) : bytes[s + i] = kw[i]

(* C16: whenever a token starts with 't', 'f' or 'n' and some byte within the  *)
(* extent of the expected keyword differs from the keyword, the lexer fails    *)
(* with InvalidLiteral at the token's start offset, expected naming the        *)
(* keyword.                                                                    *)
C16_MismatchIsInvalidLiteral ==
    [][ pc = "lex" =>
          LET s == TokenStart(input, lexcur)
          IN  KeywordStartsAt(input, s) /\ KeywordMismatch(input, s) =>
                 result' = RetErr(InvalidLiteral(s, KeywordName(input[s + 1])))
      ]_vars

\* What consume_literal does on a mismatch: InvalidLiteral only when the input
\* is long enough to hold the whole keyword, UnexpectedEof at the input length
\* otherwise
C16_MismatchInShortInput ==
    [][ pc = "lex" =>
          LET s == TokenStart(input, lexcur)
              kw == KeywordBytes(input[s + 1])
          IN  KeywordStartsAt(input, s) /\ KeywordMismatch(input, s) =>
                 result' = RetErr(IF s + Len(kw) > Len(input)
                                  THEN UnexpectedEof(Len(input), KeywordName(input[s + 1]))
                                  ELSE InvalidLiteral(s, KeywordName(input[s + 1])))
      ]_vars

(* C17: when the bytes from a leading 't', 'f' or 'n' to the end of input are  *)
(* a proper prefix of true / false / null, the lexer fails with UnexpectedEof  *)
(* whose at is the input length and whose expected names the keyword.          *)
C17_KeywordCutShort ==
    [][ pc = "lex" =>
          LET s == TokenStart(input, lexcur)
          IN  KeywordStartsAt(input, s) /\ KeywordCutShort(input, s) =>
                 /\ result' = RetErr(UnexpectedEof(Len(input), KeywordName(input[s + 1])))
                 /\ pc' = "done" /\ tokens' = <<>>
      ]_vars

\* ', fals' has been rejected at offset 6
C17_Witness ==
    /\ Done
    /\ input = <<B_COMMA, B_SPACE, 102, 97, 108, 115>>
    /\ KeywordCutShort(input, 2)
    /\ result = RetErr(UnexpectedEof(6, "false"))

-----------------------------------------------------------------------------
\* The bytes a token can start with
TokenStartBytes == {123, 125, 91, 93, 58, 44, 34, 45, 116, 102, 110} \cup 48..57

\* The token a keyword spelled in full from offset s gives
KeywordToken(b, s) ==
    IF b = 116 THEN [kind |-> "Bool", b |-> TRUE, span |-> [start |-> s, end |-> s + 4]]
    ELSE IF b = 102 THEN [kind |-> "Bool", b |-> FALSE, span |-> [start |-> s, end |-> s + 5]]
    ELSE [kind |-> "Null", span |-> [start |-> s, end |-> s + 4]]

IsUnexpectedTokenByte(r) ==
    r.tag = "Err" /\ r.e.e = "UnexpectedByte" /\ r.e.expected = "token"

(* C18: after a complete match of true / false / null the lexer emits the      *)
(* literal token with a span of exactly the keyword's length and resumes at    *)
(* the very next byte, no delimiter needed: a following byte that cannot start *)
(* a token yields UnexpectedByte at that byte's offset ('truex' fails on 'x'   *)
(* at offset 4, never with InvalidLiteral), and a following byte that can      *)
(* start a token begins the next token.                                        *)
C18_KeywordThenNextByte ==
    [][ pc = "lex" =>
          LET s == TokenStart(input, lexcur)
              n == Len(tokens)
          IN  /\ KeywordStartsAt(input, s) /\ KeywordComplete(input, s) =>
                    /\ tokens' = Append(tokens, KeywordToken(input[s + 1], s))
                    /\ lexcur' = s + Len(KeywordBytes(input[s + 1]))
                    /\ pc' = "lex" /\ result' = NoResult
              /\ (n > 0 /\ tokens[n].kind \in {"Bool", "Null"}
                        /\ tokens[n].span.end < Len(input)) =>
                    LET at == tokens[n].span.end
                        b == input[at + 1]
                    IN  /\ lexcur = at
                        /\ b \notin TokenStartBytes \cup {32, 9, 10, 13} =>
                              result' = RetErr(UnexpectedByte(at, b, "token"))
                        /\ b \in TokenStartBytes =>
                              /\ ~IsUnexpectedTokenByte(result')
                              /\ result'.tag # "Err" =>
                                    /\ Len(tokens') = n + 1
                                    /\ tokens'[n + 1].span.start = at
      ]_vars

\* 'truex' has been rejected on its 'x' at offset 4
C18_Witness ==
    /\ Done
    /\ input = <<116, 114, 117, 101, 120>>
    /\ result = RetErr(UnexpectedByte(4, 120, "token"))

-----------------------------------------------------------------------------
(* C19: at a token start, after skipping space, tab, CR and LF only, any byte  *)
(* that is not one of { } [ ] : , " - 0-9 t f n makes lex_all fail with        *)
(* UnexpectedByte, at the offset of that byte, found that byte, expected       *)
(* "token"; so do '+', the letters of an unquoted key and whitespace-like      *)
(* bytes other than the four.                                                  *)
C19_UnexpectedByte ==
    [][ pc = "lex" =>
          LET s == TokenStart(input, lexcur)
              bad == s < Len(input) /\ input[s + 1] \notin TokenStartBytes
          IN  /\ bad => /\ result' = RetErr(UnexpectedByte(s, input[s + 1], "token"))
                        /\ pc' = "done" /\ tokens' = <<>>
              /\ ~bad => ~IsUnexpectedTokenByte(result')
      ]_vars

\* A form feed after space, tab, CR, LF has been rejected at offset 4
C19_Witness ==
    /\ Done
    /\ input = <<32, 9, 13, 10, 12>>
    /\ result = RetErr(UnexpectedByte(4, 12, "token"))

-----------------------------------------------------------------------------
(* C20: at a token start on '-' or a digit, the lexer produces a Number token  *)
(* if and only if the longest run of bytes from 0-9 . e E + - that begins      *)
(* there matches the JSON number grammar and converts to a finite float; the   *)
(* token's span is exactly that run, and the first byte outside the set is     *)
(* left unconsumed as the start of the next token.                             *)
C20_NumberIffGrammar ==
    [][ pc = "lex" =>
          LET s == TokenStart(input, lexcur)
              n == Len(tokens)
              run == NumberRun(input, s)
              good == MatchesNumber(run) /\ ~RefOverflows(run)
          IN  /\ NumberStartsAt(input, s) /\ good =>
                    /\ Len(tokens') = n + 1
                    /\ SubSeq(tokens', 1, n) = tokens
                    /\ tokens'[n + 1].kind = "Number"
                    /\ tokens'[n + 1].span = [start |-> s, end |-> s + Len(run)]
                    /\ lexcur' = s + Len(run)
                    /\ pc' = "lex" /\ result' = NoResult
              /\ NumberStartsAt(input, s) /\ ~good =>
                    result'.tag = "Err" /\ tokens' = <<>> /\ pc' = "done"
              /\ ~NumberStartsAt(input, s) /\ Len(tokens') = n + 1 =>
                    tokens'[n + 1].kind # "Number"
              /\ (n > 0 /\ tokens[n].kind = "Number") =>
                    /\ lexcur = tokens[n].span.end
                    /\ Len(tokens') = n + 1 => tokens'[n + 1].span.start = s
                    /\ lexcur < Len(input) =>
                          input[lexcur + 1] \notin (48..57) \cup {46, 101, 69, 43, 45}
      ]_vars

\* '1e-1,' has been lexed to a Number of span [0, 4], a Comma of span [4, 5]
\* and the sentinel
C20_Witness ==
    /\ Done
    /\ input = <<49, 101, 45, 49, 44>>
    /\ result.tag = "Ok"
    /\ Len(tokens) = 3
    /\ tokens[1].kind = "Number" /\ tokens[1].span = [start |-> 0, end |-> 4]
    /\ tokens[2] = [kind |-> "Comma", span |-> [start |-> 4, end |-> 5]]

-----------------------------------------------------------------------------
\* Prefixes of the number grammar: what the scan of a number has read when it
\* has found no fault so far

IsDigitsOrNone(r) == \A i \in 1..Len(r) : r[i] \in 48..57
IsFracOpen(r) == r = <<>> \/ (r[1] = 46 /\ IsDigitsOrNone(Tail(r)))
IsExpOpen(r) ==
    \/ r = <<>>
    \/ /\ r[1] \in {101, 69}
       /\ \/ IsDigitsOrNone(Tail(r))
          \/ Len(r) >= 2 /\ r[2] \in {43, 45} /\ IsDigitsOrNone(SubSeq(r, 3, Len(r)))

\* r is an optional '-', an integer part and the beginning of what may follow
IsNumberPrefix(r) ==
    LET u == Unsigned(r)
    IN  \E i \in 1..Len(u) : \E j \in i..Len(u) :
            /\ IsIntPart(SubSeq(u, 1, i))
            /\ IsFracOpen(SubSeq(u, i + 1, j))
            /\ IsExpOpen(SubSeq(u, j + 1, Len(u)))
            /\ j < Len(u) => IsFracPart(SubSeq(u, i + 1, j))

\* r is an optional '-', an integer part and an optional complete fraction
IsMantissa(r) ==
    LET u == Unsigned(r)
    IN  \E i \in 1..Len(u) :
            IsIntPart(SubSeq(u, 1, i)) /\ IsFracPart(SubSeq(u, i + 1, Len(u)))

\* r is an optional '-' and an integer part
IsSignedInt(r) == IsIntPart(Unsigned(r))

AllButLast(r) == SubSeq(r, 1, Len(r) - 1)

\* The run stops directly after a '.' that follows an integer part
StopsAfterDot(run) ==
    Len(run) >= 2 /\ run[Len(run)] = 46 /\ IsSignedInt(AllButLast(run))

\* The run stops directly after 'e'/'E', or after the sign that follows it
StopsInExponent(run) ==
    \/ Len(run) >= 2 /\ run[Len(run)] \in {101, 69} /\ IsMantissa(AllButLast(run))
    \/ /\ Len(run) >= 3 /\ run[Len(run)] \in {43, 45}
       /\ run[Len(run) - 1] \in {101, 69}
       /\ IsMantissa(SubSeq(run, 1, Len(run) - 2))

IsNumberError(r, reason) ==
    r.tag = "Err" /\ r.e.e = "InvalidNumber" /\ r.e.reason = reason

(* C21: missing digits in a number are classified by where they are missing,   *)
(* at being the offset where scanning stopped: a '-' not followed by a digit   *)
(* fails with Empty at the offset after the '-'; a scan that stops, at end of  *)
(* input or at a byte outside 0-9 . e E + -, directly after '.' fails with     *)
(* MissingFracDigit; one that stops directly after 'e'/'E' or after the        *)
(* exponent sign fails with MissingExpDigit.                                   *)
C21_MissingDigits ==
    [][ pc = "lex" =>
          LET s == TokenStart(input, lexcur)
              run == NumberRun(input, s)
              stop == s + Len(run)
              bare == /\ NumberStartsAt(input, s) /\ input[s + 1] = 45
                      /\ (s + 1 = Len(input) \/ input[s + 2] \notin 48..57)
              nofrac == NumberStartsAt(input, s) /\ StopsAfterDot(run)
              noexp == NumberStartsAt(input, s) /\ StopsInExponent(run)
          IN  /\ bare => result' = RetErr(InvalidNumber(s + 1, "Empty"))
              /\ nofrac => result' = RetErr(InvalidNumber(stop, "MissingFracDigit"))
              /\ noexp => result' = RetErr(InvalidNumber(stop, "MissingExpDigit"))
              /\ IsNumberError(result', "Empty") => bare
              /\ IsNumberError(result', "MissingFracDigit") => nofrac
              /\ IsNumberError(result', "MissingExpDigit") => noexp
      ]_vars

\* ',1e+,' has been rejected at offset 4, where the scan stopped at the ','
C21_Witness ==
    /\ Done
    /\ input = <<44, 49, 101, 43, 44>>
    /\ StopsInExponent(NumberRun(input, 1))
    /\ result = RetErr(InvalidNumber(4, "MissingExpDigit"))

-----------------------------------------------------------------------------
\* The index in run of the first byte that no number can have there, the bytes
\* before it being the beginning of a number; 0 if there is none
FirstFault(run) ==
    LET ks == {k \in 2..Len(run) :
                  IsNumberPrefix(SubSeq(run, 1, k - 1)) /\ ~IsNumberPrefix(SubSeq(run, 1, k))}
    IN  IF ks = {} THEN 0 ELSE CHOOSE k \in ks : TRUE

(* C22: inside a number, a byte of . e E + - in a structurally invalid         *)
(* position fails at once with InvalidNumber, reason InvalidChar, at that      *)
(* byte's offset: a second '.', a '.' after the exponent marker, a second      *)
(* 'e'/'E', an 'e'/'E' directly after '.', and any '+' or '-' that does not    *)
(* directly follow 'e'/'E'; '1-2' and '1.e2' are InvalidChar errors, not a     *)
(* number followed by another token and not MissingFracDigit.                  *)
C22_InvalidChar ==
    [][ pc = "lex" =>
          LET s == TokenStart(input, lexcur)
              run == NumberRun(input, s)
              k == FirstFault(run)
              fault == /\ NumberStartsAt(input, s) /\ k > 0
                       /\ run[k] \in {46, 101, 69, 43, 45}
          IN  /\ fault => /\ result' = RetErr(InvalidNumber(s + k - 1, "InvalidChar"))
                          /\ tokens' = <<>> /\ pc' = "done"
              /\ IsNumberError(result', "InvalidChar") => fault
      ]_vars

\* '1.e1' has been rejected on its 'e' at offset 2
C22_Witness ==
    /\ Done
    /\ input = <<49, 46, 101, 49>>
    /\ FirstFault(input) = 3
    /\ result = RetErr(InvalidNumber(2, "InvalidChar"))

-----------------------------------------------------------------------------
\* The parts a string literal is made of, and where the first part that is
\* none begins

IsHexByte(b) == b \in (48..57) \cup (65..70) \cup (97..102)

\* A string begins at the token that starts at offset s
StringStartsAt(bytes, s) == s < Len(bytes) /\ bytes[s + 1] = 34

\* The value of the four hex digits at offsets p .. p + 3
HexCode(bytes, p) ==
    RefHex(bytes[p + 1]) * 4096 + RefHex(bytes[p + 2]) * 256
        + RefHex(bytes[p + 3]) * 16 + RefHex(bytes[p + 4])

\* The length of the part of a string that begins at offset p: 1 for a
\* character, 2 for \" \\ \/ \b \f \n \r \t, 6 for \u and four hex digits
\* that name no surrogate, 0 if no part begins there
PartLen(bytes, p) ==
    LET b == bytes[p + 1]
    IN  IF b >= 32 /\ b # 34 /\ b # 92 THEN 1
        ELSE IF b # 92 \/ p + 1 >= Len(bytes) THEN 0
        ELSE IF bytes[p + 2] \in {34, 92, 47, 98, 102, 110, 114, 116} THEN 2
        ELSE IF /\ bytes[p + 2] = 117
                /\ p + 6 <= Len(bytes)
                /\ \A i \in 3..6 : IsHexByte(bytes[p + i])
                /\ HexCode(bytes, p + 2) \notin 55296..57343
        THEN 6
        ELSE 0

\* The offset at which the parts that follow one another from offset p end
RECURSIVE PartsEnd(_, _)
PartsEnd(bytes, p) ==
    IF p < Len(bytes) /\ PartLen(bytes, p) > 0
    THEN PartsEnd(bytes, p + PartLen(bytes, p))
    ELSE p

IsStringError(r, reason) ==
    r.tag = "Err" /\ r.e.e = "InvalidString" /\ r.e.reason.r = reason

\* A backslash stands at offset q and the byte after it is b
EscapeAt(bytes, q, b) ==
    q + 1 < Len(bytes) /\ bytes[q + 1] = 92 /\ bytes[q + 2] = b

(* C23, as claimed: a raw byte below 0x20 anywhere between the quotes of a     *)
(* string, nothing before it being at fault, makes lexing fail with            *)
(* ControlChar, found that byte, at the offset of that byte: where a character *)
(* may stand, directly after a backslash, and among the four bytes after \u.   *)
C23_ControlCharAnywhere ==
    [][ pc = "lex" =>
          LET s == TokenStart(input, lexcur)
              q == PartsEnd(input, s + 1)
          IN  StringStartsAt(input, s) =>
                \A p \in q..(Len(input) - 1) :
                    ( /\ input[p + 1] < 32
                      /\ \/ p = q
                         \/ p = q + 1 /\ input[q + 1] = 92
                         \/ /\ EscapeAt(input, q, 117) /\ q + 6 <= Len(input)
                            /\ p \in (q + 2)..(q + 5)
                            /\ \A j \in (q + 2)..(p - 1) : IsHexByte(input[j + 1]) )
                    => result' = RetErr(InvalidString(p, ControlChar(input[p + 1])))
      ]_vars

(* C23, amended: a raw byte below 0x20 between the quotes of a string, where a *)
(* character of the string may stand and with nothing before it at fault,      *)
(* makes lexing fail with ControlChar, found that byte, at the offset of that  *)
(* byte, and ControlChar arises in no other way; directly after a backslash    *)
(* the byte is an InvalidEscape and among the four bytes after \u an           *)
(* InvalidUnicodeEscape; the same code point written as an escape is accepted. *)
C23_ControlChar ==
    [][ pc = "lex" =>
          LET s == TokenStart(input, lexcur)
              q == PartsEnd(input, s + 1)
              n == Len(tokens)
              raw == StringStartsAt(input, s) /\ q < Len(input) /\ input[q + 1] < 32
          IN  /\ raw => result' = RetErr(InvalidString(q, ControlChar(input[q + 1])))
              /\ IsStringError(result', "ControlChar") => raw
              /\ StringStartsAt(input, s) =>
                    \A p \in q..(Len(input) - 1) :
                        /\ (input[p + 1] < 32 /\ p = q + 1 /\ input[q + 1] = 92)
                              => result' = RetErr(InvalidString(p, InvalidEscape(input[p + 1])))
                        /\ ( /\ input[p + 1] < 32
                             /\ EscapeAt(input, q, 117) /\ q + 6 <= Len(input)
                             /\ p \in (q + 2)..(q + 5)
                             /\ \A j \in (q + 2)..(p - 1) : IsHexByte(input[j + 1]) )
                              => result' = RetErr(InvalidString(p, InvalidUnicodeEscape))
              /\ ( /\ StringStartsAt(input, s) /\ q < Len(input) /\ input[q + 1] = 34
                   /\ q > s + 1 /\ q = s + 1 + PartLen(input, s + 1)
                   /\ input[s + 2] = 92 )
                 => /\ Len(tokens') = n + 1
                    /\ tokens'[n + 1].kind = "String"
                    /\ tokens'[n + 1].span = [start |-> s, end |-> q + 1]
                    /\ input[s + 3] = 110 => tokens'[n + 1].s = <<10>>
                    /\ input[s + 3] = 116 => tokens'[n + 1].s = <<9>>
                    /\ (input[s + 3] = 117 /\ HexCode(input, s + 3) < 32)
                          => tokens'[n + 1].s = <<HexCode(input, s + 3)>>
      ]_vars

\* ' "a' 0x1F 'a' has been rejected on its control byte at offset 3
C23_Witness ==
    /\ Done
    /\ input = <<32, 34, 97, 31, 97>>
    /\ PartsEnd(input, 2) = 3
    /\ result = RetErr(InvalidString(3, ControlChar(31)))

-----------------------------------------------------------------------------
(* C24: a string whose closing quote is missing, the end of input being        *)
(* reached with no unescaped '"' and no earlier error, fails with              *)
(* InvalidString, reason Unterminated, at the input length; an escaped quote   *)
(* never terminates the string.                                                *)
C24_Unterminated ==
    [][ pc = "lex" =>
          LET s == TokenStart(input, lexcur)
              q == PartsEnd(input, s + 1)
              open == StringStartsAt(input, s) /\ q = Len(input)
          IN  /\ open => /\ result' = RetErr(InvalidString(Len(input), Unterminated))
                         /\ tokens' = <<>> /\ pc' = "done"
              /\ IsStringError(result', "Unterminated") => open
              /\ (StringStartsAt(input, s) /\ Len(tokens') = Len(tokens) + 1) =>
                    LET end == tokens'[Len(tokens')].span.end
                    IN  /\ end = q + 1
                        /\ input[end] = 34
                        /\ \A p \in (s + 1)..(end - 2) :
                              (input[p + 1] = 34) => EscapeAt(input, p - 1, 34)
      ]_vars

\* '"a\"' has been rejected at offset 4: its second quote is escaped
C24_Witness ==
    /\ Done
    /\ input = <<34, 97, 92, 34>>
    /\ PartsEnd(input, 1) = 4
    /\ result = RetErr(InvalidString(4, Unterminated))

-----------------------------------------------------------------------------
\* The escape that begins at offset q is \u and the input ends after fewer
\* than four more bytes, all of them hex digits
UnicodeCutShort(bytes, q) ==
    /\ EscapeAt(bytes, q, 117)
    /\ q + 6 > Len(bytes)
    /\ \A p \in (q + 2)..(Len(bytes) - 1) : IsHexByte(bytes[p + 1])

\* The backslash at offset q is the last byte of the input
BackslashLast(bytes, q) == q + 1 = Len(bytes) /\ bytes[q + 1] = 92

(* C25, as claimed: every escape sequence inside a string that is cut off by   *)
(* the end of input, a backslash as the last input byte or an escape begun but *)
(* not completed before the input ends, fails with InvalidString, reason       *)
(* TrailingBackslash.                                                          *)
C25_EveryCutOffEscape ==
    [][ pc = "lex" =>
          LET s == TokenStart(input, lexcur)
              q == PartsEnd(input, s + 1)
          IN  (StringStartsAt(input, s) /\ q < Len(input)
                  /\ (BackslashLast(input, q) \/ UnicodeCutShort(input, q)))
              => IsStringError(result', "TrailingBackslash")
      ]_vars

(* C25, amended: a backslash that is the last input byte inside a string fails *)
(* with InvalidString, reason TrailingBackslash, at the input length, and      *)
(* TrailingBackslash arises in no other way; a \u escape that the end of input *)
(* cuts off fails with InvalidUnicodeEscape at the input length.               *)
C25_TrailingBackslash ==
    [][ pc = "lex" =>
          LET s == TokenStart(input, lexcur)
              q == PartsEnd(input, s + 1)
              inside == StringStartsAt(input, s) /\ q < Len(input)
          IN  /\ (inside /\ BackslashLast(input, q)) =>
                    result' = RetErr(InvalidString(Len(input), TrailingBackslash))
              /\ (inside /\ UnicodeCutShort(input, q)) =>
                    result' = RetErr(InvalidString(Len(input), InvalidUnicodeEscape))
              /\ IsStringError(result', "TrailingBackslash") =>
                    inside /\ BackslashLast(input, q)
      ]_vars

\* ' "a\\\' has been rejected at offset 6: its last backslash begins an escape
C25_Witness ==
    /\ Done
    /\ input = <<32, 34, 97, 92, 92, 92>>
    /\ BackslashLast(input, PartsEnd(input, 2))
    /\ result = RetErr(InvalidString(6, TrailingBackslash))

-----------------------------------------------------------------------------
(* C26: a '\u' escape that is not followed by four hex digits fails with       *)
(* InvalidString, reason InvalidUnicodeEscape: when fewer than four bytes      *)
(* remain in the input the error's at is the input length, otherwise at is the *)
(* offset of the first non-hex byte among the four.                            *)
C26_InvalidUnicodeEscape ==
    [][ pc = "lex" =>
          LET s == TokenStart(input, lexcur)
              q == PartsEnd(input, s + 1)
              uni == StringStartsAt(input, s) /\ EscapeAt(input, q, 117)
              short == uni /\ q + 6 > Len(input)
              nonhex == {p \in (q + 2)..(q + 5) : ~IsHexByte(input[p + 1])}
              bad == uni /\ q + 6 <= Len(input) /\ nonhex # {}
          IN  /\ short => result' = RetErr(InvalidString(Len(input), InvalidUnicodeEscape))
              /\ bad => result' = RetErr(InvalidString(
                                      CHOOSE p \in nonhex : \A r \in nonhex : p <= r,
                                      InvalidUnicodeEscape))
              /\ IsStringError(result', "InvalidUnicodeEscape") => short \/ bad
      ]_vars

\* '"a\uaa@a"' has been rejected on its '@' at offset 6
C26_Witness ==
    /\ Done
    /\ input = <<34, 97, 92, 117, 97, 97, 64, 97, 34>>
    /\ PartsEnd(input, 1) = 2
    /\ result = RetErr(InvalidString(6, InvalidUnicodeEscape))

-----------------------------------------------------------------------------
(* C27: inside a string, a backslash followed by any byte other than           *)
(* " \ / b f n r t u fails with InvalidString, reason InvalidEscape, found     *)
(* that byte, at the offset of that byte, and this error is reported even when *)
(* the string also lacks a closing quote: the leftmost error wins over         *)
(* Unterminated.                                                               *)
C27_InvalidEscape ==
    [][ pc = "lex" =>
          LET s == TokenStart(input, lexcur)
              q == PartsEnd(input, s + 1)
              esc == /\ StringStartsAt(input, s) /\ q + 1 < Len(input)
                     /\ input[q + 1] = 92
                     /\ input[q + 2] \notin {34, 92, 47, 98, 102, 110, 114, 116, 117}
          IN  /\ esc => /\ result' = RetErr(InvalidString(q + 1, InvalidEscape(input[q + 2])))
                        /\ tokens' = <<>> /\ pc' = "done"
              /\ IsStringError(result', "InvalidEscape") => esc
      ]_vars

\* ' "\xa' has been rejected on its 'x' at offset 3, closing quote or none
C27_Witness ==
    /\ Done
    /\ input = <<32, 34, 92, 120, 97>>
    /\ \A p \in 2..4 : input[p + 1] # 34
    /\ result = RetErr(InvalidString(3, InvalidEscape(120)))

-----------------------------------------------------------------------------
\* The call that is running is parse_json_array / parse_json_object
InArray == stack # <<>> /\ stack[Len(stack)].fn = "array"
InObject == stack # <<>> /\ stack[Len(stack)].fn = "object"

\* The kind of the token consumed last
LastKind == IF popped = <<>> THEN "none" ELSE popped[Len(popped)].kind

IsParseError(r, kind) == r.tag = "Err" /\ r.e.e = kind

(* C28: in array parsing, after an element has been parsed, a next token that  *)
(* is neither ',' nor ']' and is not the end-of-input sentinel (the second     *)
(* number of '[1 2]', a ':' or a '}') fails with InvalidArray whose found is   *)
(* that token's tag and whose at is its start offset; the token is only        *)
(* peeked, not consumed.                                                       *)
C28_InvalidArray ==
    [][ /\ pc = "arr_loop" =>
              /\ InArray /\ Len(stack[Len(stack)].out) >= 1
              /\ tokens # <<>>
              /\ Head(tokens).kind \notin {"Comma", "RBracket", "Eof"} =>
                    /\ result' = RetErr(InvalidArray(Head(tokens).kind,
                                                     Some(Head(tokens).span.start)))
                    /\ tokens' = tokens /\ popped' = popped /\ cursor' = cursor
                    /\ pc' = "done"
              /\ Head(tokens).kind \in {"Comma", "RBracket"} =>
                    /\ result' = NoResult
                    /\ tokens' = Tail(tokens)
        /\ (result.tag # "Err" /\ IsParseError(result', "InvalidArray")) =>
              pc = "arr_loop" /\ Head(tokens).kind \notin {"Comma", "RBracket"}
      ]_vars

\* '[1 1' has failed on its second number at offset 3, which is still queued
C28_Witness ==
    /\ Done
    /\ input = <<B_LBRACKET, B_0 + 1, B_SPACE, B_0 + 1>>
    /\ result = RetErr(InvalidArray("Number", Some(3)))
    /\ Len(popped) = 2
    /\ Head(tokens).kind = "Number" /\ Head(tokens).span.start = 3

-----------------------------------------------------------------------------
-----------------------------------------------------------------------------
(* C30: in object parsing, wherever a key is required (after a '{' not         *)
(* followed by '}', and after every ','), the next token must be a String: the *)
(* end-of-input sentinel there yields UnexpectedEOF and any other token,       *)
(* '}' after a comma included, yields InvalidJsonObject with that token's tag  *)
(* and start offset; the token after the key must be ':' and any other token   *)
(* there yields InvalidJsonObject with that token's tag and start offset.      *)
C30_KeyThenColon ==
    [][ /\ (pc = "obj_first" /\ Head(tokens).kind # "RBrace") =>
              /\ LastKind = "LBrace"
              /\ pc' = "obj_key" /\ tokens' = tokens /\ stack' = stack
        /\ (pc = "obj_loop" /\ Head(tokens).kind = "Comma") =>
              pc' = "obj_key" /\ tokens' = Tail(tokens)
        /\ pc = "obj_key" =>
              /\ InObject /\ LastKind \in {"LBrace", "Comma"}
              /\ Head(tokens).kind = "String" =>
                    /\ pc' = "obj_colon" /\ result' = NoResult
                    /\ stack'[Len(stack')].key = <<Head(tokens).s>>
              /\ Head(tokens).kind = "Eof" =>
                    result' = RetErr(UnexpectedEOF(Some(Len(input))))
              /\ Head(tokens).kind \notin {"String", "Eof"} =>
                    result' = RetErr(InvalidJsonObject(Head(tokens).kind,
                                                       Some(Head(tokens).span.start)))
        /\ pc = "obj_colon" =>
              /\ InObject /\ LastKind = "String"
              /\ Head(tokens).kind = "Colon" => pc' = "value" /\ result' = NoResult
              /\ Head(tokens).kind # "Colon" =>
                    result' = RetErr(InvalidJsonObject(Head(tokens).kind,
                                                       Some(Head(tokens).span.start)))
      ]_vars

\* '{"a":1,}' has failed on the '}' at offset 7, where its second key should be
C30_Witness ==
    /\ Done
    /\ input = <<B_LBRACE, B_QUOTE, B_a, B_QUOTE, B_COLON, B_0 + 1, B_COMMA, B_RBRACE>>
    /\ result = RetErr(InvalidJsonObject("RBrace", Some(7)))

-----------------------------------------------------------------------------
(* C31: the object loop treats end of input as the array loop is specified to: *)
(* when the input ends where ',' or '}' is expected after a complete key:value *)
(* pair ('{"a":1'), process_json_string_v2 fails with UnexpectedEOF, while any *)
(* other token there that is neither ',' nor '}' fails with InvalidJsonObject. *)
C31_EofInsideObject ==
    [][ (pc = "obj_loop" /\ tokens # <<>>) =>
          /\ Head(tokens).kind = "Eof" => IsParseError(result', "UnexpectedEOF")
          /\ Head(tokens).kind \notin {"Eof", "Comma", "RBrace"} =>
                result' = RetErr(InvalidJsonObject(Head(tokens).kind,
                                                   Some(Head(tokens).span.start)))
      ]_vars

\* What parse_json_object's loop does with the sentinel: it is a token like
\* any other that is neither ',' nor '}'
C31_SentinelIsInvalidObject ==
    [][ (pc = "obj_loop" /\ tokens # <<>> /\ Head(tokens).kind \notin {"Comma", "RBrace"}) =>
          result' = RetErr(InvalidJsonObject(Head(tokens).kind,
                                             Some(Head(tokens).span.start)))
      ]_vars

-----------------------------------------------------------------------------
\* The input begins, after whitespace, with a bracket or a brace: it is the
\* text of an array or an object, or a stray closer
ContainerInput ==
    LET s == TokenStart(input, 0)
    IN  s < Len(input) /\ input[s + 1] \in {91, 93, 123, 125}

(* C32: every structurally malformed array or object input (missing, leading,  *)
(* trailing or doubled comma; missing colon or value; unterminated container;  *)
(* stray or extra closing bracket; unquoted key; unterminated string inside a  *)
(* container) is rejected by process_json_string_v2, and the error is always   *)
(* one of invalid-array or invalid-object, unexpected-EOF, a wrapped lexer     *)
(* error, or invalid-file; no other error kind is returned for these inputs.   *)
C32_MalformedContainerErrors ==
    (Done /\ ContainerInput /\ ~RefParse.ok) =>
        /\ result.tag = "Err"
        /\ result.e.e \in {"InvalidArray", "InvalidJsonObject", "UnexpectedEOF",
                           "LexError", "InvalidJsonFile"}

\* What is returned for these inputs: the five kinds of the claim's list that
\* JsonParsingErrorV2 has, and UnexpectedToken and ExpectedEOF besides
C32_MalformedContainerRejected ==
    (Done /\ ContainerInput /\ ~RefParse.ok) =>
        /\ result.tag = "Err"
        /\ result.e.e \in {"InvalidArray", "InvalidJsonObject", "UnexpectedEOF",
                           "LexError", "UnexpectedToken", "ExpectedEOF"}


-----------------------------------------------------------------------------
\* The tag of the token whose text starts at offset at of the input: the
\* sentinel at the end of the input, else the tag its first byte decides
TagAtOffset(bytes, at) ==
    IF at = Len(bytes) THEN "Eof"
    ELSE LET b == bytes[at + 1]
         IN  CASE b = 123 -> "LBrace" [] b = 125 -> "RBrace"
               [] b = 91 -> "LBracket" [] b = 93 -> "RBracket"
               [] b = 58 -> "Colon" [] b = 44 -> "Comma"
               [] b = 34 -> "String" [] b \in {116, 102} -> "Bool"
               [] b = 110 -> "Null" [] OTHER -> "Number"

\* The token an error of the kind e blames: the one peeked at the head of the
\* queue, or the one popped last
CauseOf(e) ==
    IF e = "InvalidArray" THEN {Head(tokens)}
    ELSE IF e = "InvalidJsonObject"
    THEN {popped[Len(popped)]} \cup (IF tokens = <<>> THEN {} ELSE {Head(tokens)})
    ELSE {popped[Len(popped)]}

(* C33: an ExpectedEOF, UnexpectedToken, InvalidArray or InvalidJsonObject     *)
(* error that process_json_string_v2 returns names in found the tag of the     *)
(* token that caused it and in at the start offset of that token's span: the   *)
(* token is one of the input's tokens, the text at that offset starts a token  *)
(* of that tag, every token before it has been consumed and none after it;     *)
(* and no parser-level error, UnexpectedEOF included, has at = None.           *)
C33_FoundAndAt ==
    (Done /\ result.tag = "Err") =>
        /\ (result.e.e \in {"ExpectedEOF", "UnexpectedToken", "InvalidArray",
                            "InvalidJsonObject"}) =>
              /\ \E t \in CauseOf(result.e.e) :
                    /\ result.e.found = t.kind
                    /\ result.e.at = Some(t.span.start)
                    /\ \E i \in 1..Len(Lexed.v) : Lexed.v[i] = t
              /\ result.e.at # None
              /\ result.e.at[1] \in 0..Len(input)
              /\ result.e.found = TagAtOffset(input, result.e.at[1])
              /\ \A i \in 1..Len(popped) : popped[i].span.start <= result.e.at[1]
              /\ \A i \in 1..Len(tokens) : tokens[i].span.start >= result.e.at[1]
        /\ (result.e.e = "UnexpectedEOF") => result.e.at # None

\* '[1]]' is refused at its second ']', at offset 3
C33_Witness ==
    /\ Done
    /\ input = <<91, 49, 93, 93>>
    /\ result = RetErr(ExpectedEOF("RBracket", Some(3)))

-----------------------------------------------------------------------------
\* An offset once a byte has been put in at offset p
ShiftOffset(at, p) == IF at >= p THEN at + 1 ELSE at

ShiftToken(t, p) ==
    [t EXCEPT !.span = [start |-> ShiftOffset(t.span.start, p),
                        end |-> IF t.span.start >= p THEN t.span.end + 1 ELSE t.span.end]]

\* What lex_all returns, with every offset moved
ShiftLexed(r, p) ==
    IF r.ok THEN [r EXCEPT !.v = [i \in 1..Len(r.v) |-> ShiftToken(r.v[i], p)],
                           !.cursor = ShiftOffset(r.cursor, p)]
    ELSE [r EXCEPT !.e = [@ EXCEPT !.at = ShiftOffset(@, p)], !.cursor = ShiftOffset(r.cursor, p)]

\* What process_json_string_v2 returns, with every error offset moved
ShiftResult(r, p) ==
    IF r.tag # "Err" THEN r
    ELSE IF r.e.e = "LexError"
    THEN RetErr(LexError([r.e.lex EXCEPT !.at = ShiftOffset(@, p)]))
    ELSE IF r.e.e = "EmptyJsonFile" THEN r
    ELSE RetErr([r.e EXCEPT !.at = Some(ShiftOffset(@[1], p))])

Kinds(toks) == [i \in 1..Len(toks) |-> toks[i].kind]

\* The step from the text before to the text after keeps the token kinds and
\* the returned value, and moves the offsets at or after the new byte by one
WsKeeps(before, after) ==
    \A p \in WsPoints(before, 0) : \A w \in WsBytes :
        (after = InsertAt(before, p, w)) =>
            LET a == lex_all(before)
                b == lex_all(after)
            IN  /\ b.ok = a.ok
                /\ a.ok => Kinds(b.v) = Kinds(a.v)
                /\ [x \in {"ok", "v", "e"} \cap DOMAIN b |-> b[x]]
                     = [x \in {"ok", "v", "e"} \cap DOMAIN a |-> ShiftLexed(a, p)[x]]
                /\ process_json_string_v2(after) = ShiftResult(process_json_string_v2(before), p)

\* The claim as it reads: whitespace put into any input, the empty one too
C34_WhitespaceAnyInput == [][WsKeeps(input, input')]_vars

(* C34: putting space, tab, CR or LF bytes before the first token, after the   *)
(* last token or between two tokens of an input that is not empty changes      *)
(* neither the kinds of the tokens lex_all returns (nor their payloads, nor    *)
(* the lexer error) nor what process_json_string_v2 returns: the same value,   *)
(* or the same error; only the spans and the error offsets at or after the new *)
(* byte move by one.                                                           *)
C34_WhitespaceBetweenTokens == [][input # <<>> => WsKeeps(input, input')]_vars

\* '[ 1,' TAB '[2]]': two bytes put into [1,[2]]
C34_Witness ==
    /\ input = <<91, 32, 49, 44, 9, 91, 50, 93, 93>>
    /\ process_json_string_v2(input) = process_json_string_v2(Nest(2))
    /\ process_json_string_v2(input).tag = "Ok"

-----------------------------------------------------------------------------
(* C35: during a parse the token queue is consumed from the front, each token  *)
(* popped once at most: what has been popped followed by what is left is the   *)
(* sequence lex_all returned, and a handler pops one token or none.  The       *)
(* parser never pops or peeks an empty queue: the queue has a token whenever a *)
(* handler is to run, so the branches for an exhausted queue are not taken and *)
(* an UnexpectedEOF is returned only with the sentinel popped.  The sentinel   *)
(* is the last token ever popped, the run is over once it is popped, and on    *)
(* success the queue is empty.                                                 *)
C35_QueueFrontToBack ==
    /\ [] /\ (pc \notin {"start", "done"}) => tokens # <<>>
          /\ (pc # "start" /\ input # <<>> /\ Lexed.ok) => popped \o tokens = Lexed.v
          /\ \A i \in 1..(Len(popped) - 1) : popped[i].kind # "Eof"
          /\ (LastKind = "Eof") => Done
          /\ (Done /\ result.tag = "Ok") => (tokens = <<>> /\ LastKind = "Eof")
          /\ (Done /\ IsParseError(result, "UnexpectedEOF")) => LastKind = "Eof"
    /\ [][ (pc # "start") =>
             \/ (tokens' = tokens /\ popped' = popped)
             \/ (tokens # <<>> /\ tokens' = Tail(tokens) /\ popped' = Append(popped, Head(tokens)))
         ]_vars

\* '[1]' is parsed: '[', '1', ']' and the sentinel were popped in turn
C35_Witness ==
    /\ Done
    /\ input = <<91, 49, 93>>
    /\ result.tag = "Ok"
    /\ tokens = <<>>
    /\ Kinds(popped) = <<"LBracket", "Number", "RBracket", "Eof">>

-----------------------------------------------------------------------------
(* C36: every UnexpectedEOF error process_json_string_v2 returns has           *)
(* at = Some(n), n the byte length of the whole input, whitespace at its end   *)
(* included: the cursor is the span end of the token popped last, and the      *)
(* error is returned only once the sentinel, whose span is n..n, is popped.    *)
C36_UnexpectedEofAtLength ==
    /\ (pc # "start" /\ popped # <<>>) => cursor = popped[Len(popped)].span.end
    /\ (Done /\ IsParseError(result, "UnexpectedEOF")) =>
          /\ result.e.at = Some(Len(input))
          /\ LastKind = "Eof"
          /\ popped[Len(popped)].span = Span(Len(input), Len(input))
          /\ cursor = Len(input)

\* '[1, ' ends where a value is due: UnexpectedEOF at 4, past the space
C36_Witness ==
    /\ Done
    /\ input = <<91, 49, 44, 32>>
    /\ result = RetErr(UnexpectedEOF(Some(4)))

-----------------------------------------------------------------------------
\* The length the text of a structural or keyword token has
FixedLength(t) ==
    CASE t.kind \in {"LBrace", "RBrace", "LBracket", "RBracket", "Colon", "Comma"} -> 1
      [] t.kind = "Null" -> 4
      [] t.kind = "Bool" -> IF t.b THEN 4 ELSE 5

\* The offset j is inside the span of one of toks
Covered(toks, j) == \E i \in 1..Len(toks) : toks[i].span.start <= j /\ j < toks[i].span.end

(* C37: the spans of the tokens lex_all returns for an input of n bytes tile    *)
(* it in order: each token has start <= end <= n, each token but the sentinel  *)
(* start < end, a structural token is 1 byte long and a keyword token as long  *)
(* as its keyword, a token ends at or before the start of the next, and every  *)
(* input byte in no span is a space, tab, CR or LF.  While lexing goes on the   *)
(* same holds of the tokens made so far and the bytes before the cursor.       *)
C37_SpansTile ==
    LET n == Len(input)
        upto == IF Done THEN n ELSE lexcur
    IN  (pc = "lex" \/ (Done /\ result.tag = "Ok")) =>
            /\ \A i \in 1..Len(tokens) :
                  /\ 0 <= tokens[i].span.start
                  /\ tokens[i].span.start <= tokens[i].span.end
                  /\ tokens[i].span.end <= n
                  /\ (tokens[i].kind # "Eof") => tokens[i].span.start < tokens[i].span.end
                  /\ (tokens[i].kind \notin {"Eof", "String", "Number"}) =>
                        tokens[i].span.end - tokens[i].span.start = FixedLength(tokens[i])
                  /\ (i < Len(tokens)) => tokens[i].span.end <= tokens[i + 1].span.start
            /\ \A j \in 0..(upto - 1) : ~Covered(tokens, j) => input[j + 1] \in {32, 9, 13, 10}
            /\ (Done) => result.v = tokens

\* Four whitespace bytes and '[1' are lexed: '[' at 4..5, 1 at 5..6, the
\* sentinel at 6..6
C37_Witness ==
    /\ Done
    /\ input = <<32, 9, 13, 10, 91, 49>>
    /\ result.tag = "Ok"
    /\ Len(result.v) = 3
    /\ result.v[1].span = Span(4, 5)
    /\ result.v[2].span = Span(5, 6)
    /\ result.v[3].span = Span(6, 6)

-----------------------------------------------------------------------------
(* C38: lex_all terminates on every input.  Each call of next_token returns an *)
(* error, which ends the loop, or the sentinel, which ends it too, or a token  *)
(* with the cursor at least one byte further; the cursor never goes back and   *)
(* never past the end, so an input of n bytes gives n + 1 tokens at most, and  *)
(* the loop is left in the end.                                                *)
C38_LexAllTerminates ==
    /\ [][ (pc = "lex") =>
             /\ lexcur' >= lexcur
             /\ lexcur' <= Len(input)
             /\ \/ (result'.tag = "Err" /\ pc' = "done")
                \/ /\ result'.tag = "Ok" /\ pc' = "done"
                   /\ tokens' = Append(tokens, Token("Eof", Span(Len(input), Len(input))))
                \/ /\ pc' = "lex" /\ result' = NoResult
                   /\ Len(tokens') = Len(tokens) + 1
                   /\ tokens'[Len(tokens')].kind # "Eof"
                   /\ lexcur' > lexcur
         ]_vars
    /\ [](Len(tokens) <= Len(input) + 1)
    /\ [](pc = "lex" => Len(tokens) <= lexcur)
    /\ <>Done

\* ',,,,' gives five tokens for four bytes
C38_Witness ==
    /\ Done
    /\ input = <<44, 44, 44, 44>>
    /\ result.tag = "Ok"
    /\ Len(tokens) = Len(input) + 1

-----------------------------------------------------------------------------
\* The byte an error says it found, if it says so
FoundBytes(e) ==
    (IF "found" \in DOMAIN e THEN {e.found} ELSE {}) \cup
    (IF e.e = "InvalidString" /\ "found" \in DOMAIN e.reason THEN {e.reason.found} ELSE {})

(* C39: in every reachable state of the lexer the cursor is between 0 and the  *)
(* length of the input, and the next_token call made from it reads inside the  *)
(* input only: the call has an outcome (a read past the end has none), it      *)
(* leaves the cursor between where it was and the length, a token's span and   *)
(* an error's offset lie there too, and a byte an error reports as found is    *)
(* the input byte at the error's offset, which is below the length.  lex_all   *)
(* never returns CursorOutOfBounds.                                            *)
C39_CursorInBounds ==
    LET n == Len(input)
        r == lexer_next_token(input, lexcur)
    IN  /\ 0 <= lexcur /\ lexcur <= n
        /\ ~IsParseError(result, "CursorOutOfBounds")
        /\ (pc = "lex") =>
              /\ r.ok \in BOOLEAN
              /\ lexcur <= r.cursor /\ r.cursor <= n
              /\ r.ok => /\ lexcur <= r.v.span.start
                         /\ r.v.span.start <= r.v.span.end
                         /\ r.v.span.end = r.cursor
              /\ ~r.ok => /\ r.e.e # "CursorOutOfBounds"
                          /\ lexcur <= r.e.at /\ r.e.at <= n
                          /\ \A b \in FoundBytes(r.e) : r.e.at < n /\ b = input[r.e.at + 1]

\* A lone '-': the cursor stops at the end of the input, where no digit is
C39_Witness ==
    /\ Done
    /\ input = <<45>>
    /\ lexcur = Len(input)
    /\ result = RetErr(InvalidNumber(1, NumEmpty))

-----------------------------------------------------------------------------
(* C40: the two-stage parser is at least as strict as the single-pass one:     *)
(* whenever process_json_string_v2 returns Ok(v) for an input, the naive       *)
(* process_json_string returns Ok of an equal value for it.  (The converse is  *)
(* not claimed: the naive parser does not look at what follows the value.)     *)
C40_NaiveAcceptsToo ==
    (Done /\ result.tag = "Ok") => process_json_string(input) = RetOk(result.v)

\* {"a":-1.5} is parsed by both to an object of one pair
C40_Witness ==
    /\ Done
    /\ input = <<123, 34, 97, 34, 58, 45, 49, 46, 53, 125>>
    /\ result.tag = "Ok"
    /\ result.v.t = "Object"
    /\ process_json_string(input) = result
=============================================================================
